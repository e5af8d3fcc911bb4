------------------------------- MODULE KeySet -------------------------------
(* What the B+-tree and the resident page set promise their callers: a set of   *)
(* keys.  An insert and a remove that finds its key take effect once, at one    *)
(* instant of the call; every answer is true of an instant of the call.         *)
EXTENDS Integers

CONSTANTS Callers, Keys

VARIABLES keys,   \* the set
          todo,   \* todo[c]: the call of c and its key, then its answer
          was     \* was[c]: whether c's key is in the set, at the instants of the call so far

Nothing == <<"none", 0>>
Calls == {"insert", "remove", "lookup"}

Init == /\ keys \subseteq Keys
        /\ todo = [c \in Callers |-> Nothing] /\ was = [c \in Callers |-> {}]

Answer(c, answer) == todo' = [todo EXCEPT ![c] = answer]

Call(c, what, k) == todo[c] = Nothing /\ Answer(c, <<what, k>>) /\ UNCHANGED keys

\* insert answers nothing.
Insert(c) == /\ todo[c][1] = "insert" /\ todo[c][2] \notin keys
             /\ keys' = keys \cup {todo[c][2]} /\ Answer(c, Nothing)

Remove(c) == /\ todo[c][1] = "remove" /\ todo[c][2] \in keys
             /\ keys' = keys \ {todo[c][2]} /\ Answer(c, <<"found", 0>>)

Found(c) == /\ todo[c][1] = "lookup" /\ TRUE \in was[c]
            /\ Answer(c, <<"found", 0>>) /\ UNCHANGED keys

Missing(c) == /\ todo[c][1] \in {"remove", "lookup"} /\ FALSE \in was[c]
              /\ Answer(c, <<"missing", 0>>) /\ UNCHANGED keys

Return(c) == /\ todo[c][1] \in {"found", "missing"}
             /\ Answer(c, Nothing) /\ UNCHANGED keys

Step(c) == \/ \E what \in Calls, k \in Keys : Call(c, what, k)
           \/ Insert(c) \/ Remove(c) \/ Found(c) \/ Missing(c) \/ Return(c)

\* After the step, each call that has not been answered has seen one more instant.
Observe == was' = [c \in Callers |-> IF todo'[c][1] \in Calls
                                       THEN was[c] \cup {todo'[c][2] \in keys'} ELSE {}]

Next == (\E c \in Callers : Step(c)) /\ Observe

Spec == Init /\ [][Next]_<<keys, todo, was>>
=============================================================================
