---------------------------- MODULE AdditiveSchwarz ----------------------------
(***************************************************************************)
(* What SchwarzPreconditioner::apply promises each of its callers, with no *)
(* pool, no workers and no accumulators: a call takes a residual, local    *)
(* solves may fail while it runs, and it returns either the sum            *)
(* M^-1 r = SUM_i R_i^T D_i A_i^-1 D_i R_i r or the error of a subdomain   *)
(* whose local solve did fail, and then leaves no partial sum in z.  Calls *)
(* of different callers do not touch each other.                           *)
(***************************************************************************)
CONSTANTS Callers, Subdomains, Residuals, Vectors, Zero, MInv(_)

VARIABLES
  busy,      (* callers inside an apply                            *)
  residual,  (* the residual of each caller's current or last call *)
  faulty,    (* subdomains whose local solve failed in this call   *)
  z,         (* each caller's output vector                        *)
  result     (* what each caller was told                          *)

vars == <<busy, residual, faulty, z, result>>

Init ==
  /\ busy = {}
  /\ residual \in [Callers -> Residuals]
  /\ faulty = [c \in Callers |-> {}]
  /\ z = [c \in Callers |-> Zero]
  /\ result = [c \in Callers |-> "pending"]

Reject(c) ==
  /\ c \notin busy
  /\ result' = [result EXCEPT ![c] = "InvalidInput"]
  /\ UNCHANGED <<busy, residual, faulty, z>>

Call(c) ==
  /\ c \notin busy
  /\ busy' = busy \cup {c}
  /\ \E r \in Residuals : residual' = [residual EXCEPT ![c] = r]
  /\ result' = [result EXCEPT ![c] = "pending"]
  /\ UNCHANGED <<faulty, z>>

(* A local solve of c's call fails. *)
Fault(c, s) ==
  /\ c \in busy
  /\ result[c] = "pending"
  /\ faulty' = [faulty EXCEPT ![c] = @ \cup {s}]
  /\ UNCHANGED <<busy, residual, z, result>>

Succeed(c) ==
  /\ c \in busy
  /\ result[c] = "pending"
  /\ faulty[c] = {}
  /\ z' = [z EXCEPT ![c] = MInv(residual[c])]
  /\ result' = [result EXCEPT ![c] = "ok"]
  /\ UNCHANGED <<busy, residual, faulty>>

Fail(c) ==
  /\ c \in busy
  /\ result[c] = "pending"
  /\ \E s \in faulty[c] : result' = [result EXCEPT ![c] = s]
  /\ \E v \in {z[c], Zero} : z' = [z EXCEPT ![c] = v]
  /\ UNCHANGED <<busy, residual, faulty>>

(* The call returns; a panic of a local solve unwinds out of it. *)
Return(c) ==
  /\ c \in busy
  /\ \/ result[c] # "pending" /\ UNCHANGED result
     \/ /\ result[c] = "pending"
        /\ faulty[c] # {}
        /\ result' = [result EXCEPT ![c] = "panicked"]
  /\ busy' = busy \ {c}
  /\ faulty' = [faulty EXCEPT ![c] = {}]
  /\ UNCHANGED <<residual, z>>

Next ==
  \E c \in Callers :
    \/ Reject(c) \/ Call(c) \/ Succeed(c) \/ Fail(c) \/ Return(c)
    \/ \E s \in Subdomains : Fault(c, s)

Spec == Init /\ [][Next]_vars
=============================================================================
