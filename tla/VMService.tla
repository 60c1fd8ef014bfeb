------------------------------ MODULE VMService -----------------------------
(***************************************************************************)
(* What the node expects of VMDriver, whatever happens to the VM process:  *)
(* concurrent operations are served one after the other, each is executed  *)
(* at most once and only while its caller waits, and a caller gets either  *)
(* the answer to its own, executed operation or an error.                  *)
(***************************************************************************)
EXTENDS Naturals

CONSTANT Threads

VARIABLES phase,     \* "idle", "waiting" for the driver or being "served"
          operation, \* the identity of each thread's operation
          reply,     \* the operation its last answer was for, 0 for an error
          executed,  \* operations whose execution completed
          issued     \* how many operations were called

vars == <<phase, operation, reply, executed, issued>>

Init ==
  /\ phase = [t \in Threads |-> "idle"]
  /\ operation = [t \in Threads |-> 0]
  /\ reply = [t \in Threads |-> 0]
  /\ executed = {} /\ issued = 0

Submit(t) ==
  /\ phase[t] = "idle"
  /\ issued' = issued + 1
  /\ operation' = [operation EXCEPT ![t] = issued + 1]
  /\ phase' = [phase EXCEPT ![t] = "waiting"]
  /\ UNCHANGED <<reply, executed>>

Begin(t) ==
  /\ phase[t] = "waiting"
  /\ \A u \in Threads : phase[u] # "served"
  /\ phase' = [phase EXCEPT ![t] = "served"]
  /\ UNCHANGED <<operation, reply, executed, issued>>

Execute(t) ==
  /\ phase[t] = "served" /\ operation[t] \notin executed
  /\ executed' = executed \cup {operation[t]}
  /\ UNCHANGED <<phase, operation, reply, issued>>

Finish(t, answer) ==
  /\ phase[t] = "served"
  /\ reply' = [reply EXCEPT ![t] = answer]
  /\ phase' = [phase EXCEPT ![t] = "idle"]
  /\ UNCHANGED <<operation, executed, issued>>

Answer(t) == operation[t] \in executed /\ Finish(t, operation[t])
Fail(t) == Finish(t, 0)

Next ==
  \E t \in Threads : Submit(t) \/ Begin(t) \/ Execute(t) \/ Answer(t) \/ Fail(t)

Spec == Init /\ [][Next]_vars
=============================================================================
