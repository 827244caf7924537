---------------------------- MODULE MCAttendance -----------------------------
(***************************************************************************)
(* Instances of AttendanceStaff.  The seeded specification starts a few    *)
(* requests into the day, at a state that Init reaches: a number of    *)
(* sessions, each holding one capability to rotate the PIN and one         *)
(* challenge for it, all minted at time 0.  It keeps the races of a        *)
(* rotation within a few identifiers of the initial state.                 *)
(***************************************************************************)
EXTENDS AttendanceStaff, TLC

CONSTANTS
  SeededDoc,            \* the document of the seeded sessions
  Sessions              \* how many sessions are seeded, possibly none

ConnectionSymmetry == Permutations(Thread)

SeededSession(i) ==
  [id |-> 3 * i - 1, doc |-> SeededDoc, verified |-> credential,
   epoch |-> credential, key |-> credential]

SeededCapability(i) ==
  [id |-> 3 * i, ticket |-> 3 * i - 1, scope |-> PIN_ROTATION,
   exp |-> CAPABILITY_TTL_SECONDS, epoch |-> credential, key |-> credential]

SeededChallenge(i) ==
  [id |-> 3 * i + 1, purpose |-> "pin.change", doc |-> NoDoc,
   ticket |-> 3 * i - 1, scope |-> PIN_ROTATION,
   exp |-> CHALLENGE_TTL_SECONDS]

SeededInit ==
  /\ now = 0
  /\ credential \in Pin
  /\ signer = [no |-> 1, pin |-> credential]
  /\ public = credential /\ epoch = credential /\ posture = "BOUND"
  /\ zeroing = {} /\ closed = {}
  /\ LET seeded == 1 .. Sessions
     IN /\ challenges = {SeededChallenge(i) : i \in seeded}
        /\ attendances = {SeededSession(i) : i \in seeded}
        /\ capabilities = {SeededCapability(i) : i \in seeded}
        /\ known = [challenge |-> {3 * i + 1 : i \in seeded},
                    ticket |-> {3 * i - 1 : i \in seeded},
                    capability |-> {3 * i : i \in seeded}]
        /\ fresh = 3 * Sessions + 2
  /\ pc = [t \in Thread |-> "idle"]
  /\ req = [t \in Thread |-> Idle]

SeededSpec == SeededInit /\ [][Next]_vars

SeededFairSpec == SeededSpec /\ \A t \in Thread : WF_vars(Step(t))
==============================================================================
