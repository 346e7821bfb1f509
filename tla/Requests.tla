------------------------------ MODULE Requests ------------------------------
(***************************************************************************)
(* What the API handlers have in common: a request loads a row, works on   *)
(* its copy, and writes at one commit what it changed.  The rows live in   *)
(* the modules that extend this one.  Requests are numbered in the order   *)
(* they arrive; one that was refused, or is answered, is over.             *)
(***************************************************************************)
EXTENDS Naturals, FiniteSets

CONSTANTS MaxRequests    \* the requests of a behaviour (a bound)

ASSUME RequestsAssumption == MaxRequests \in Nat

VARIABLES
  request,      \* per request: where it is and what it has loaded
  expected      \* per request: the kinds it may be of in this behaviour (a bound)

requests == <<request, expected>>

Ids == 1 .. MaxRequests

Awaited == [step |-> "awaited"]
Over == [step |-> "over"]

RequestsInit(kinds) ==
  /\ request = [i \in Ids |-> Awaited]
  /\ expected = kinds

Arrives(i, kind) ==
  /\ kind \in expected[i]
  /\ request[i] = Awaited
  /\ \A j \in 1 .. i - 1 : request[j] # Awaited

Moves(i, r) ==
  /\ request' = [request EXCEPT ![i] = r]
  /\ UNCHANGED expected

InStep(i, kind, step) == request[i].step = step /\ request[i].kind = kind

InFlight(kinds, target) ==
  {i \in Ids : /\ request[i].step \notin {"awaited", "over"}
               /\ request[i].kind \in kinds /\ request[i].on = target}

(***************************************************************************)
(* An UPDATE names the attributes whose value differs from the one that    *)
(* was loaded; the others keep what the row has by the time of the commit. *)
(***************************************************************************)
Flushed(loaded, value, current) ==
  [f \in DOMAIN current |-> IF value[f] = loaded[f] THEN current[f] ELSE value[f]]
=============================================================================
