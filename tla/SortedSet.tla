----------------------------- MODULE SortedSet -----------------------------
(***************************************************************************)
(* What a sorted set promises its clients: every zadd and zrmv takes       *)
(* effect at one instant between its call and its answer, and a zrange     *)
(* reads one instant.  The Rust sorted set (module ZSet) implements it.    *)
(***************************************************************************)
EXTENDS Naturals

CONSTANTS Threads,   \* request handlers
          Values,    \* members a sorted set may hold
          Scores,    \* scores, a set of naturals
          Missing    \* stands for an absent score

VARIABLES created,   \* a zrange finds the sorted set
          entries,   \* the members with their scores
          phase,     \* phase[t]: idle, called, applied
          arg,       \* arg[t]: the call thread t serves
          ans        \* ans[t]: the answer thread t is about to send

vars == <<created, entries, phase, arg, ans>>

Entries  == [value : Values, score : Scores]
NoCall   == [op |-> "none", value |-> Missing, score |-> Missing]
NoAnswer == [status |-> "none", entries |-> {}]

Calls    == [op : {"zadd"}, value : Values, score : Scores]
              \cup [op : {"zrmv"}, value : Values, score : {Missing}]

\* The effect of a call on the members: zadd sets the score of a member,
\* zrmv drops the member.
Effect(members, c) ==
    {e \in members : e.value # c.value}
      \cup {e \in Entries : c.op = "zadd" /\ e.value = c.value /\ e.score = c.score}

\* The answer to zrange(lo, hi).
RangeAnswer(found, members, lo, hi) ==
    [status  |-> IF ~found THEN "404" ELSE IF lo > hi THEN "closed" ELSE "200",
     entries |-> {e \in members : found /\ lo <= e.score /\ e.score <= hi}]

Init == /\ created = FALSE
        /\ entries = {}
        /\ phase = [t \in Threads |-> "idle"]
        /\ arg = [t \in Threads |-> NoCall]
        /\ ans = [t \in Threads |-> NoAnswer]

Call(t) == /\ phase[t] = "idle"
           /\ \E c \in Calls : arg' = [arg EXCEPT ![t] = c]
           /\ phase' = [phase EXCEPT ![t] = "called"]
           /\ UNCHANGED <<created, entries, ans>>

\* A zadd makes the sorted set exist no later than it takes effect.
Create(t) == /\ phase[t] = "called"
             /\ arg[t].op = "zadd"
             /\ created' = TRUE
             /\ UNCHANGED <<entries, phase, arg, ans>>

Apply(t) == /\ phase[t] = "called"
            /\ arg[t].op = "zadd" => created
            /\ entries' = Effect(entries, arg[t])
            /\ phase' = [phase EXCEPT ![t] = "applied"]
            /\ UNCHANGED <<created, arg, ans>>

Read(t) == /\ phase[t] = "idle"
           /\ \E lo, hi \in Scores :
                ans' = [ans EXCEPT ![t] = RangeAnswer(created, entries, lo, hi)]
           /\ phase' = [phase EXCEPT ![t] = "applied"]
           /\ UNCHANGED <<created, entries, arg>>

\* The answer of a zadd or zrmv carries nothing but its status.
Finish(t) == /\ phase[t] = "applied"
             /\ phase' = [phase EXCEPT ![t] = "idle"]
             /\ arg' = [arg EXCEPT ![t] = NoCall]
             /\ ans' = [ans EXCEPT ![t] = NoAnswer]
             /\ UNCHANGED <<created, entries>>

Next == \E t \in Threads : Call(t) \/ Create(t) \/ Apply(t) \/ Read(t) \/ Finish(t)

Spec == Init /\ [][Next]_vars
=============================================================================
