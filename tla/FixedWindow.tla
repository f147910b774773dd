----------------------------- MODULE FixedWindow -----------------------------
(***************************************************************************)
(* What a fixed-window limiter promises: a key's window opens with its     *)
(* first attempt, is over Window ticks later, whoever looks at it or not,  *)
(* and lets MaxAttempts through.  There is no memory to reclaim.           *)
(***************************************************************************)
EXTENDS Naturals, Sequences

CONSTANTS Clients, Keys, KeyOf(_), MaxAttempts, Window, Outcomes, Closed

VARIABLES
    clock,
    window,  \* key -> when its window opened and what it let through, or Closed
    log      \* the attempts and what became of them

vars == <<clock, window, log>>

Init == clock = 0 /\ window = [k \in Keys |-> Closed] /\ log = <<>>

\* Time passes, and the windows that are over close.
Tick ==
    /\ clock' = clock + 1
    /\ window' = [k \in Keys |->
                    IF window[k] = Closed \/ window[k].start + Window <= clock + 1 THEN Closed
                    ELSE window[k]]
    /\ UNCHANGED log

Record(c, outcome) ==
    log' = Append(log, [client |-> c, time |-> clock, outcome |-> outcome])

\* A refusal leaves the window alone: it is not counted.
Refuse(c) ==
    /\ window[KeyOf(c)] # Closed /\ window[KeyOf(c)].count >= MaxAttempts
    /\ Record(c, "refused")
    /\ UNCHANGED <<clock, window>>

LetThrough(c) ==
    LET k == KeyOf(c) IN
    /\ \/ /\ window[k] = Closed
          /\ window' = [window EXCEPT ![k] = [count |-> 1, start |-> clock]]
       \/ /\ window[k] # Closed /\ window[k].count < MaxAttempts
          /\ window' = [window EXCEPT ![k] = [window[k] EXCEPT !.count = @ + 1]]
    /\ \E outcome \in Outcomes : Record(c, outcome)
    /\ UNCHANGED clock

Next == Tick \/ \E c \in Clients : Refuse(c) \/ LetThrough(c)
Spec == Init /\ [][Next]_vars
=============================================================================
