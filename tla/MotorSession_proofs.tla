------------------------- MODULE MotorSession_proofs -------------------------
(***************************************************************************)
(* The safety properties of MotorSession for any number of client threads, *)
(* any set of angles in the tilt range and any bounds.  The inductive      *)
(* invariant IInv adds to them what a thread has already done when it is   *)
(* at a place of the critical section, and that the in-flight counter is   *)
(* the number of threads inside tilt().                                    *)
(***************************************************************************)
EXTENDS MotorSession, FiniteSetTheorems, TLAPS

Tilting == {t \in Threads : InTilt(t)}

\* TypeOK in parts, without the counter, whose range follows from Counted.
DeviceTypes ==
  /\ kind \in Kinds /\ present \in BOOLEAN /\ gen \in 0..MaxGen
  /\ angle \in Angles /\ goal \in Angles /\ moving \in BOOLEAN

MutexTypes  == mutex \in Threads \cup {NoThread}
HandleTypes == handle \in 0..MaxGen
AngleTypes  == lastValid \in BOOLEAN /\ lastTilt \in Angles \cup {0}

CallTypes ==
  /\ attempt \in 1..2 /\ polls \in 0..MaxPolls
  /\ result \in Results /\ issued \in Nat /\ accepted \in Nat

ThreadTypes ==
  /\ pc \in [Threads -> Places]
  /\ op \in [Threads -> Ops]
  /\ req \in [Threads -> Angles]

FlagTypes ==
  /\ primed \in BOOLEAN /\ verified \in BOOLEAN
  /\ greened \in BOOLEAN /\ disturbed \in BOOLEAN /\ excused \in BOOLEAN

Types ==
  /\ DeviceTypes /\ MutexTypes /\ HandleTypes /\ AngleTypes
  /\ CallTypes /\ ThreadTypes /\ FlagTypes

\* The counter counts the threads inside tilt().
Counted == inFlight = Cardinality(Tilting)

\* What the place of a thread says about its operation.
PlaceOfOp ==
  \A t \in Threads :
    /\ pc[t] = "idle" <=> op[t] = "None"
    /\ pc[t] \in {"wait", "read", "leave"} => op[t] = "Tilt"
    /\ pc[t] = "check" => op[t] \in CheckedOps
    /\ pc[t] = "read" => kind = "Audio1473"
    /\ op[t] = "Ping" => pc[t] \in {"check", "lock", "open", "reply"}

\* CompletedIsLast, and where a request stands with its commands: none has been
\* reported complete before "wait", and every attempt has yet to issue its own.
Issuance ==
  /\ CompletedIsLast
  /\ \A t \in Threads :
       /\ pc[t] \in {"open", "prepare", "act"} =>
            /\ accepted = 0 /\ issued < attempt
            /\ kind = "Audio1473" => issued = 0
       /\ pc[t] \in {"wait", "read"} => accepted > 0

PrimedIsGreened == primed /\ kind = "Audio1473" => greened

\* An unexcused 1473 travel is the one its owner waits for, and its owner
\* knows where it started.
TravelWatched ==
  kind = "Audio1473" /\ moving /\ ~excused =>
    \E t \in Threads :
      mutex = t /\ pc[t] = "wait" /\ goal = req[t] /\ ~BeliefWrong

\* A handle was opened at the last plug-in or an earlier one.
HandleKnown == handle <= gen

\* The verified bit is raised by the step that ends a call.
VerifiedLast == \A t \in Threads : pc[t] \in Critical \ {"reply"} => ~verified

\* While the handle is live nobody has sent the motor elsewhere.
GoalIsRequest == \A t \in Threads : pc[t] \in {"wait", "read"} /\ Live => goal = req[t]

IInv ==
  /\ Types
  /\ OwnerInside
  /\ PlaceOfOp
  /\ Counted
  /\ Issuance
  /\ CompletedTiltSucceeds
  /\ PrimedIsGreened
  /\ PrimedBeforeTraffic
  /\ TravelWatched
  /\ SilentKnownTravel
  /\ HandleKnown
  /\ VerifiedLast
  /\ GoalIsRequest
  /\ VerifiedIsOwnMove

-----------------------------------------------------------------------------
(* The steps, one case per action.                                          *)

LEMMA NoThreadOutside == NoThread \notin Threads
  BY ThreadsAssumption DEF Threads

\* A request of a client or of the SDK thread.
Request(t, o, a) == o # "None" /\ (t = Sdk => o = "SdkLed") /\ Start(t, o, a)

\* The disjuncts of Next, the requests of the clients and of the SDK as one case.
LEMMA NextCases ==
  ASSUME Types, [Next]_vars
  PROVE  \/ \E t \in Threads, o \in Ops, a \in Angles : Request(t, o, a)
         \/ \E t \in Threads : Step(t)
         \/ MotorStops \/ Unplug \/ Replug \/ UNCHANGED vars
<1>1. ASSUME NEW c \in Clients, NEW o \in ClientOps, NEW a \in Angles, Start(c, o, a)
      PROVE  \E t \in Threads, p \in Ops, b \in Angles : Request(t, p, b)
  <2>1. c \in Threads /\ o \in Ops /\ o # "None" /\ c # Sdk
    BY ThreadsAssumption DEF Threads, Ops, ClientOps
  <2> QED
    BY <1>1, <2>1 DEF Request
<1>2. ASSUME Start(Sdk, "SdkLed", req[Sdk])
      PROVE  \E t \in Threads, p \in Ops, b \in Angles : Request(t, p, b)
  <2>1. Sdk \in Threads /\ "SdkLed" \in Ops /\ req[Sdk] \in Angles
    BY DEF Types, ThreadTypes, Threads, Ops
  <2> QED
    BY <1>2, <2>1 DEF Request
<1> QED
  BY <1>1, <1>2 DEF Next

\* The types are kept: DeviceTypes.
LEMMA DeviceTypesStep ==
  ASSUME Types, [Next]_vars
  PROVE  DeviceTypes'
<1> USE BoundsAssumption
  DEF Types, DeviceTypes, ThreadTypes, vars, device, session, call, thread, history
<1>1. ASSUME NEW t \in Threads, NEW o \in Ops, NEW a \in Angles, Request(t, o, a)
      PROVE  DeviceTypes'
  BY <1>1 DEF Request, Start, Goto
<1>2. ASSUME NEW t \in Threads, Check(t) PROVE DeviceTypes'
  BY <1>2 DEF Check, Goto
<1>3. ASSUME NEW t \in Threads, Lock(t) PROVE DeviceTypes'
  BY <1>3 DEF Lock, Goto
<1>4. ASSUME NEW t \in Threads, Unlock(t) PROVE DeviceTypes'
  BY <1>4 DEF Unlock, Goto
<1>5. ASSUME NEW t \in Threads, Leave(t) PROVE DeviceTypes'
  BY <1>5 DEF Leave, Goto
<1>6. ASSUME NEW t \in Threads, Open(t) PROVE DeviceTypes'
  BY <1>6 DEF Open, Goto, Finish, KeepHandle, KeepAngle, CloseHandle, Retries
<1>7. ASSUME NEW t \in Threads, Prepare(t) PROVE DeviceTypes'
  BY <1>7 DEF Prepare, Goto, Finish, Touch, Live, AttemptFailed, CloseHandle, KeepHandle,
         KeepAngle, Retries
<1>8. ASSUME NEW t \in Threads, PrepareCamera(t) PROVE DeviceTypes'
  BY <1>8 DEF PrepareCamera, Goto, Finish
<1>9. ASSUME NEW t \in Threads, SetLed(t) PROVE DeviceTypes'
  BY <1>9 DEF SetLed, Goto, Finish, Touch, Live, AttemptFailed, CloseHandle, KeepHandle,
         KeepAngle, Retries
<1>10. ASSUME NEW t \in Threads, ReadStatus(t) PROVE DeviceTypes'
  BY <1>10 DEF ReadStatus, Goto, Finish, Touch, Live, RememberAngle, AngleReported,
         AttemptFailed, CloseHandle, KeepHandle, KeepAngle, Retries
<1>11. ASSUME NEW t \in Threads, IssueTilt(t) PROVE DeviceTypes'
  BY <1>11 DEF IssueTilt, Transferred, NotTransferred, Commit, Goto, Finish, Touch, Live,
         AttemptFailed, CloseHandle, KeepHandle, KeepAngle, Retries
<1>12. ASSUME NEW t \in Threads, Poll1414(t) PROVE DeviceTypes'
  BY <1>12 DEF Poll1414, Goto, Finish, Live, RememberAngle, KeepAngle, AngleReported
<1>13. ASSUME NEW t \in Threads, QuietElapsed1473(t) PROVE DeviceTypes'
  BY <1>13 DEF QuietElapsed1473, Goto
<1>14. ASSUME NEW t \in Threads, FinalRead1473(t) PROVE DeviceTypes'
  BY <1>14 DEF FinalRead1473, Goto, Finish, Touch, Live, RememberAngle, KeepAngle, AngleReported
<1>15. ASSUME MotorStops PROVE DeviceTypes'
  BY <1>15 DEF MotorStops
<1>16. ASSUME Unplug PROVE DeviceTypes'
  BY <1>16 DEF Unplug
<1>17. ASSUME Replug PROVE DeviceTypes'
  BY <1>17 DEF Replug
<1>18. ASSUME UNCHANGED vars PROVE DeviceTypes'
  BY <1>18 DEF vars
<1> QED
  BY <1>1, <1>2, <1>3, <1>4, <1>5, <1>6, <1>7, <1>8, <1>9,
     <1>10, <1>11, <1>12, <1>13, <1>14, <1>15, <1>16, <1>17, <1>18,
     NextCases
    DEF Step

\* The types are kept: MutexTypes.
LEMMA MutexTypesStep ==
  ASSUME Types, [Next]_vars
  PROVE  MutexTypes'
<1> USE ThreadsAssumption
  DEF Types, MutexTypes, vars, device, session, call, thread, history
<1>1. ASSUME NEW t \in Threads, NEW o \in Ops, NEW a \in Angles, Request(t, o, a)
      PROVE  MutexTypes'
  BY <1>1 DEF Request, Start, Goto
<1>2. ASSUME NEW t \in Threads, Check(t) PROVE MutexTypes'
  BY <1>2 DEF Check, Goto
<1>3. ASSUME NEW t \in Threads, Lock(t) PROVE MutexTypes'
  BY <1>3 DEF Lock, Goto
<1>4. ASSUME NEW t \in Threads, Unlock(t) PROVE MutexTypes'
  BY <1>4 DEF Unlock, Goto
<1>5. ASSUME NEW t \in Threads, Leave(t) PROVE MutexTypes'
  BY <1>5 DEF Leave, Goto
<1>6. ASSUME NEW t \in Threads, Open(t) PROVE MutexTypes'
  BY <1>6 DEF Open, Goto, Finish, KeepHandle, KeepAngle, CloseHandle, Retries
<1>7. ASSUME NEW t \in Threads, Prepare(t) PROVE MutexTypes'
  BY <1>7 DEF Prepare, Goto, Finish, Touch, Live, AttemptFailed, CloseHandle, KeepHandle,
         KeepAngle, Retries
<1>8. ASSUME NEW t \in Threads, PrepareCamera(t) PROVE MutexTypes'
  BY <1>8 DEF PrepareCamera, Goto, Finish
<1>9. ASSUME NEW t \in Threads, SetLed(t) PROVE MutexTypes'
  BY <1>9 DEF SetLed, Goto, Finish, Touch, Live, AttemptFailed, CloseHandle, KeepHandle,
         KeepAngle, Retries
<1>10. ASSUME NEW t \in Threads, ReadStatus(t) PROVE MutexTypes'
  BY <1>10 DEF ReadStatus, Goto, Finish, Touch, Live, RememberAngle, AngleReported,
         AttemptFailed, CloseHandle, KeepHandle, KeepAngle, Retries
<1>11. ASSUME NEW t \in Threads, IssueTilt(t) PROVE MutexTypes'
  BY <1>11 DEF IssueTilt, Transferred, NotTransferred, Commit, Goto, Finish, Touch, Live,
         AttemptFailed, CloseHandle, KeepHandle, KeepAngle, Retries
<1>12. ASSUME NEW t \in Threads, Poll1414(t) PROVE MutexTypes'
  BY <1>12 DEF Poll1414, Goto, Finish, Live, RememberAngle, KeepAngle, AngleReported
<1>13. ASSUME NEW t \in Threads, QuietElapsed1473(t) PROVE MutexTypes'
  BY <1>13 DEF QuietElapsed1473, Goto
<1>14. ASSUME NEW t \in Threads, FinalRead1473(t) PROVE MutexTypes'
  BY <1>14 DEF FinalRead1473, Goto, Finish, Touch, Live, RememberAngle, KeepAngle, AngleReported
<1>15. ASSUME MotorStops PROVE MutexTypes'
  BY <1>15 DEF MotorStops
<1>16. ASSUME Unplug PROVE MutexTypes'
  BY <1>16 DEF Unplug
<1>17. ASSUME Replug PROVE MutexTypes'
  BY <1>17 DEF Replug
<1>18. ASSUME UNCHANGED vars PROVE MutexTypes'
  BY <1>18 DEF vars
<1> QED
  BY <1>1, <1>2, <1>3, <1>4, <1>5, <1>6, <1>7, <1>8, <1>9,
     <1>10, <1>11, <1>12, <1>13, <1>14, <1>15, <1>16, <1>17, <1>18,
     NextCases
    DEF Step

\* The types are kept: HandleTypes.
LEMMA HandleTypesStep ==
  ASSUME Types, [Next]_vars
  PROVE  HandleTypes'
<1> USE BoundsAssumption
  DEF Types, DeviceTypes, HandleTypes, vars, device, session, call, thread, history
<1>1. ASSUME NEW t \in Threads, NEW o \in Ops, NEW a \in Angles, Request(t, o, a)
      PROVE  HandleTypes'
  BY <1>1 DEF Request, Start, Goto
<1>2. ASSUME NEW t \in Threads, Check(t) PROVE HandleTypes'
  BY <1>2 DEF Check, Goto
<1>3. ASSUME NEW t \in Threads, Lock(t) PROVE HandleTypes'
  BY <1>3 DEF Lock, Goto
<1>4. ASSUME NEW t \in Threads, Unlock(t) PROVE HandleTypes'
  BY <1>4 DEF Unlock, Goto
<1>5. ASSUME NEW t \in Threads, Leave(t) PROVE HandleTypes'
  BY <1>5 DEF Leave, Goto
<1>6. ASSUME NEW t \in Threads, Open(t) PROVE HandleTypes'
  BY <1>6 DEF Open, Goto, Finish, KeepHandle, KeepAngle, CloseHandle, Retries
<1>7. ASSUME NEW t \in Threads, Prepare(t) PROVE HandleTypes'
  BY <1>7 DEF Prepare, Goto, Finish, Touch, Live, AttemptFailed, CloseHandle, KeepHandle,
         KeepAngle, Retries
<1>8. ASSUME NEW t \in Threads, PrepareCamera(t) PROVE HandleTypes'
  BY <1>8 DEF PrepareCamera, Goto, Finish
<1>9. ASSUME NEW t \in Threads, SetLed(t) PROVE HandleTypes'
  BY <1>9 DEF SetLed, Goto, Finish, Touch, Live, AttemptFailed, CloseHandle, KeepHandle,
         KeepAngle, Retries
<1>10. ASSUME NEW t \in Threads, ReadStatus(t) PROVE HandleTypes'
  BY <1>10 DEF ReadStatus, Goto, Finish, Touch, Live, RememberAngle, AngleReported,
         AttemptFailed, CloseHandle, KeepHandle, KeepAngle, Retries
<1>11. ASSUME NEW t \in Threads, IssueTilt(t) PROVE HandleTypes'
  BY <1>11 DEF IssueTilt, Transferred, NotTransferred, Commit, Goto, Finish, Touch, Live,
         AttemptFailed, CloseHandle, KeepHandle, KeepAngle, Retries
<1>12. ASSUME NEW t \in Threads, Poll1414(t) PROVE HandleTypes'
  BY <1>12 DEF Poll1414, Goto, Finish, Live, RememberAngle, KeepAngle, AngleReported
<1>13. ASSUME NEW t \in Threads, QuietElapsed1473(t) PROVE HandleTypes'
  BY <1>13 DEF QuietElapsed1473, Goto
<1>14. ASSUME NEW t \in Threads, FinalRead1473(t) PROVE HandleTypes'
  BY <1>14 DEF FinalRead1473, Goto, Finish, Touch, Live, RememberAngle, KeepAngle, AngleReported
<1>15. ASSUME MotorStops PROVE HandleTypes'
  BY <1>15 DEF MotorStops
<1>16. ASSUME Unplug PROVE HandleTypes'
  BY <1>16 DEF Unplug
<1>17. ASSUME Replug PROVE HandleTypes'
  BY <1>17 DEF Replug
<1>18. ASSUME UNCHANGED vars PROVE HandleTypes'
  BY <1>18 DEF vars
<1> QED
  BY <1>1, <1>2, <1>3, <1>4, <1>5, <1>6, <1>7, <1>8, <1>9,
     <1>10, <1>11, <1>12, <1>13, <1>14, <1>15, <1>16, <1>17, <1>18,
     NextCases
    DEF Step

\* The types are kept: AngleTypes.
LEMMA AngleTypesStep ==
  ASSUME Types, [Next]_vars
  PROVE  AngleTypes'
<1> USE AnglesAssumption
  DEF Types, DeviceTypes, AngleTypes, vars, device, session, call, thread, history
<1>1. ASSUME NEW t \in Threads, NEW o \in Ops, NEW a \in Angles, Request(t, o, a)
      PROVE  AngleTypes'
  BY <1>1 DEF Request, Start, Goto
<1>2. ASSUME NEW t \in Threads, Check(t) PROVE AngleTypes'
  BY <1>2 DEF Check, Goto
<1>3. ASSUME NEW t \in Threads, Lock(t) PROVE AngleTypes'
  BY <1>3 DEF Lock, Goto
<1>4. ASSUME NEW t \in Threads, Unlock(t) PROVE AngleTypes'
  BY <1>4 DEF Unlock, Goto
<1>5. ASSUME NEW t \in Threads, Leave(t) PROVE AngleTypes'
  BY <1>5 DEF Leave, Goto
<1>6. ASSUME NEW t \in Threads, Open(t) PROVE AngleTypes'
  BY <1>6 DEF Open, Goto, Finish, KeepHandle, KeepAngle, CloseHandle, Retries
<1>7. ASSUME NEW t \in Threads, Prepare(t) PROVE AngleTypes'
  BY <1>7 DEF Prepare, Goto, Finish, Touch, Live, AttemptFailed, CloseHandle, KeepHandle,
         KeepAngle, Retries
<1>8. ASSUME NEW t \in Threads, PrepareCamera(t) PROVE AngleTypes'
  BY <1>8 DEF PrepareCamera, Goto, Finish
<1>9. ASSUME NEW t \in Threads, SetLed(t) PROVE AngleTypes'
  BY <1>9 DEF SetLed, Goto, Finish, Touch, Live, AttemptFailed, CloseHandle, KeepHandle,
         KeepAngle, Retries
<1>10. ASSUME NEW t \in Threads, ReadStatus(t) PROVE AngleTypes'
  BY <1>10 DEF ReadStatus, Goto, Finish, Touch, Live, RememberAngle, AngleReported,
         AttemptFailed, CloseHandle, KeepHandle, KeepAngle, Retries
<1>11. ASSUME NEW t \in Threads, IssueTilt(t) PROVE AngleTypes'
  BY <1>11 DEF IssueTilt, Transferred, NotTransferred, Commit, Goto, Finish, Touch, Live,
         AttemptFailed, CloseHandle, KeepHandle, KeepAngle, Retries
<1>12. ASSUME NEW t \in Threads, Poll1414(t) PROVE AngleTypes'
  BY <1>12 DEF Poll1414, Goto, Finish, Live, RememberAngle, KeepAngle, AngleReported
<1>13. ASSUME NEW t \in Threads, QuietElapsed1473(t) PROVE AngleTypes'
  BY <1>13 DEF QuietElapsed1473, Goto
<1>14. ASSUME NEW t \in Threads, FinalRead1473(t) PROVE AngleTypes'
  BY <1>14 DEF FinalRead1473, Goto, Finish, Touch, Live, RememberAngle, KeepAngle, AngleReported
<1>15. ASSUME MotorStops PROVE AngleTypes'
  BY <1>15 DEF MotorStops
<1>16. ASSUME Unplug PROVE AngleTypes'
  BY <1>16 DEF Unplug
<1>17. ASSUME Replug PROVE AngleTypes'
  BY <1>17 DEF Replug
<1>18. ASSUME UNCHANGED vars PROVE AngleTypes'
  BY <1>18 DEF vars
<1> QED
  BY <1>1, <1>2, <1>3, <1>4, <1>5, <1>6, <1>7, <1>8, <1>9,
     <1>10, <1>11, <1>12, <1>13, <1>14, <1>15, <1>16, <1>17, <1>18,
     NextCases
    DEF Step

\* The types are kept: CallTypes.
LEMMA CallTypesStep ==
  ASSUME Types, [Next]_vars
  PROVE  CallTypes'
<1> USE BoundsAssumption
  DEF Types, CallTypes, Results, vars, device, session, call, thread, history
<1>1. ASSUME NEW t \in Threads, NEW o \in Ops, NEW a \in Angles, Request(t, o, a)
      PROVE  CallTypes'
  BY <1>1 DEF Request, Start, Goto
<1>2. ASSUME NEW t \in Threads, Check(t) PROVE CallTypes'
  BY <1>2 DEF Check, Goto
<1>3. ASSUME NEW t \in Threads, Lock(t) PROVE CallTypes'
  BY <1>3 DEF Lock, Goto
<1>4. ASSUME NEW t \in Threads, Unlock(t) PROVE CallTypes'
  BY <1>4 DEF Unlock, Goto
<1>5. ASSUME NEW t \in Threads, Leave(t) PROVE CallTypes'
  BY <1>5 DEF Leave, Goto
<1>6. ASSUME NEW t \in Threads, Open(t) PROVE CallTypes'
  BY <1>6 DEF Open, Goto, Finish, KeepHandle, KeepAngle, CloseHandle, Retries
<1>7. ASSUME NEW t \in Threads, Prepare(t) PROVE CallTypes'
  BY <1>7 DEF Prepare, Goto, Finish, Touch, Live, AttemptFailed, CloseHandle, KeepHandle,
         KeepAngle, Retries
<1>8. ASSUME NEW t \in Threads, PrepareCamera(t) PROVE CallTypes'
  BY <1>8 DEF PrepareCamera, Goto, Finish
<1>9. ASSUME NEW t \in Threads, SetLed(t) PROVE CallTypes'
  BY <1>9 DEF SetLed, Goto, Finish, Touch, Live, AttemptFailed, CloseHandle, KeepHandle,
         KeepAngle, Retries
<1>10. ASSUME NEW t \in Threads, ReadStatus(t) PROVE CallTypes'
  BY <1>10 DEF ReadStatus, Goto, Finish, Touch, Live, RememberAngle, AngleReported,
         AttemptFailed, CloseHandle, KeepHandle, KeepAngle, Retries
<1>11. ASSUME NEW t \in Threads, IssueTilt(t) PROVE CallTypes'
  BY <1>11 DEF IssueTilt, Transferred, NotTransferred, Commit, Goto, Finish, Touch, Live,
         AttemptFailed, CloseHandle, KeepHandle, KeepAngle, Retries
<1>12. ASSUME NEW t \in Threads, Poll1414(t) PROVE CallTypes'
  BY <1>12 DEF Poll1414, Goto, Finish, Live, RememberAngle, KeepAngle, AngleReported
<1>13. ASSUME NEW t \in Threads, QuietElapsed1473(t) PROVE CallTypes'
  BY <1>13 DEF QuietElapsed1473, Goto
<1>14. ASSUME NEW t \in Threads, FinalRead1473(t) PROVE CallTypes'
  BY <1>14 DEF FinalRead1473, Goto, Finish, Touch, Live, RememberAngle, KeepAngle, AngleReported
<1>15. ASSUME MotorStops PROVE CallTypes'
  BY <1>15 DEF MotorStops
<1>16. ASSUME Unplug PROVE CallTypes'
  BY <1>16 DEF Unplug
<1>17. ASSUME Replug PROVE CallTypes'
  BY <1>17 DEF Replug
<1>18. ASSUME UNCHANGED vars PROVE CallTypes'
  BY <1>18 DEF vars
<1> QED
  BY <1>1, <1>2, <1>3, <1>4, <1>5, <1>6, <1>7, <1>8, <1>9,
     <1>10, <1>11, <1>12, <1>13, <1>14, <1>15, <1>16, <1>17, <1>18,
     NextCases
    DEF Step

\* The types are kept: ThreadTypes.
LEMMA ThreadTypesStep ==
  ASSUME Types, [Next]_vars
  PROVE  ThreadTypes'
<1> USE ThreadsAssumption
  DEF Types, DeviceTypes, ThreadTypes, Places, Critical, Ops, vars, device, session,
      call, thread, history
<1>1. ASSUME NEW t \in Threads, NEW o \in Ops, NEW a \in Angles, Request(t, o, a)
      PROVE  ThreadTypes'
  BY <1>1 DEF Request, Start, Goto
<1>2. ASSUME NEW t \in Threads, Check(t) PROVE ThreadTypes'
  BY <1>2 DEF Check, Goto
<1>3. ASSUME NEW t \in Threads, Lock(t) PROVE ThreadTypes'
  BY <1>3 DEF Lock, Goto
<1>4. ASSUME NEW t \in Threads, Unlock(t) PROVE ThreadTypes'
  BY <1>4 DEF Unlock, Goto
<1>5. ASSUME NEW t \in Threads, Leave(t) PROVE ThreadTypes'
  BY <1>5 DEF Leave, Goto
<1>6. ASSUME NEW t \in Threads, Open(t) PROVE ThreadTypes'
  BY <1>6 DEF Open, Goto, Finish, KeepHandle, KeepAngle, CloseHandle, Retries
<1>7. ASSUME NEW t \in Threads, Prepare(t) PROVE ThreadTypes'
  BY <1>7 DEF Prepare, Goto, Finish, Touch, Live, AttemptFailed, CloseHandle, KeepHandle,
         KeepAngle, Retries
<1>8. ASSUME NEW t \in Threads, PrepareCamera(t) PROVE ThreadTypes'
  BY <1>8 DEF PrepareCamera, Goto, Finish
<1>9. ASSUME NEW t \in Threads, SetLed(t) PROVE ThreadTypes'
  BY <1>9 DEF SetLed, Goto, Finish, Touch, Live, AttemptFailed, CloseHandle, KeepHandle,
         KeepAngle, Retries
<1>10. ASSUME NEW t \in Threads, ReadStatus(t) PROVE ThreadTypes'
  BY <1>10 DEF ReadStatus, Goto, Finish, Touch, Live, RememberAngle, AngleReported,
         AttemptFailed, CloseHandle, KeepHandle, KeepAngle, Retries
<1>11. ASSUME NEW t \in Threads, IssueTilt(t) PROVE ThreadTypes'
  BY <1>11 DEF IssueTilt, Transferred, NotTransferred, Commit, Goto, Finish, Touch, Live,
         AttemptFailed, CloseHandle, KeepHandle, KeepAngle, Retries
<1>12. ASSUME NEW t \in Threads, Poll1414(t) PROVE ThreadTypes'
  BY <1>12 DEF Poll1414, Goto, Finish, Live, RememberAngle, KeepAngle, AngleReported
<1>13. ASSUME NEW t \in Threads, QuietElapsed1473(t) PROVE ThreadTypes'
  BY <1>13 DEF QuietElapsed1473, Goto
<1>14. ASSUME NEW t \in Threads, FinalRead1473(t) PROVE ThreadTypes'
  BY <1>14 DEF FinalRead1473, Goto, Finish, Touch, Live, RememberAngle, KeepAngle, AngleReported
<1>15. ASSUME MotorStops PROVE ThreadTypes'
  BY <1>15 DEF MotorStops
<1>16. ASSUME Unplug PROVE ThreadTypes'
  BY <1>16 DEF Unplug
<1>17. ASSUME Replug PROVE ThreadTypes'
  BY <1>17 DEF Replug
<1>18. ASSUME UNCHANGED vars PROVE ThreadTypes'
  BY <1>18 DEF vars
<1> QED
  BY <1>1, <1>2, <1>3, <1>4, <1>5, <1>6, <1>7, <1>8, <1>9,
     <1>10, <1>11, <1>12, <1>13, <1>14, <1>15, <1>16, <1>17, <1>18,
     NextCases
    DEF Step

\* The types are kept: FlagTypes.
LEMMA FlagTypesStep ==
  ASSUME Types, [Next]_vars
  PROVE  FlagTypes'
<1> USE BoundsAssumption
  DEF Types, DeviceTypes, FlagTypes, vars, device, session, call, thread, history
<1>1. ASSUME NEW t \in Threads, NEW o \in Ops, NEW a \in Angles, Request(t, o, a)
      PROVE  FlagTypes'
  BY <1>1 DEF Request, Start, Goto
<1>2. ASSUME NEW t \in Threads, Check(t) PROVE FlagTypes'
  BY <1>2 DEF Check, Goto
<1>3. ASSUME NEW t \in Threads, Lock(t) PROVE FlagTypes'
  BY <1>3 DEF Lock, Goto
<1>4. ASSUME NEW t \in Threads, Unlock(t) PROVE FlagTypes'
  BY <1>4 DEF Unlock, Goto
<1>5. ASSUME NEW t \in Threads, Leave(t) PROVE FlagTypes'
  BY <1>5 DEF Leave, Goto
<1>6. ASSUME NEW t \in Threads, Open(t) PROVE FlagTypes'
  BY <1>6 DEF Open, Goto, Finish, KeepHandle, KeepAngle, CloseHandle, Retries
<1>7. ASSUME NEW t \in Threads, Prepare(t) PROVE FlagTypes'
  BY <1>7 DEF Prepare, Goto, Finish, Touch, Live, AttemptFailed, CloseHandle, KeepHandle,
         KeepAngle, Retries
<1>8. ASSUME NEW t \in Threads, PrepareCamera(t) PROVE FlagTypes'
  BY <1>8 DEF PrepareCamera, Goto, Finish
<1>9. ASSUME NEW t \in Threads, SetLed(t) PROVE FlagTypes'
  BY <1>9 DEF SetLed, Goto, Finish, Touch, Live, AttemptFailed, CloseHandle, KeepHandle,
         KeepAngle, Retries
<1>10. ASSUME NEW t \in Threads, ReadStatus(t) PROVE FlagTypes'
  BY <1>10 DEF ReadStatus, Goto, Finish, Touch, Live, RememberAngle, AngleReported,
         AttemptFailed, CloseHandle, KeepHandle, KeepAngle, Retries
<1>11. ASSUME NEW t \in Threads, IssueTilt(t) PROVE FlagTypes'
  BY <1>11 DEF IssueTilt, Transferred, NotTransferred, Commit, Goto, Finish, Touch, Live,
         AttemptFailed, CloseHandle, KeepHandle, KeepAngle, Retries
<1>12. ASSUME NEW t \in Threads, Poll1414(t) PROVE FlagTypes'
  BY <1>12 DEF Poll1414, Goto, Finish, Live, RememberAngle, KeepAngle, AngleReported
<1>13. ASSUME NEW t \in Threads, QuietElapsed1473(t) PROVE FlagTypes'
  BY <1>13 DEF QuietElapsed1473, Goto
<1>14. ASSUME NEW t \in Threads, FinalRead1473(t) PROVE FlagTypes'
  <2>1. verified' \in BOOLEAN
    <3>1. verified' = (req[t] \in AngleReported) \/ verified' = verified
      BY <1>14, Zenon DEF FinalRead1473
    <3>2. (req[t] \in AngleReported) \in BOOLEAN /\ verified \in BOOLEAN
      BY DEF Types, FlagTypes
    <3> HIDE DEF Types, FlagTypes
    <3> QED
      BY <3>1, <3>2, Zenon
  <2>2. disturbed' \in BOOLEAN
    BY <1>14 DEF FinalRead1473, Touch
  <2>3. UNCHANGED <<primed, greened, excused>>
    BY <1>14 DEF FinalRead1473
  <2> QED
    BY <2>1, <2>2, <2>3
<1>15. ASSUME MotorStops PROVE FlagTypes'
  BY <1>15 DEF MotorStops
<1>16. ASSUME Unplug PROVE FlagTypes'
  BY <1>16 DEF Unplug
<1>17. ASSUME Replug PROVE FlagTypes'
  BY <1>17 DEF Replug
<1>18. ASSUME UNCHANGED vars PROVE FlagTypes'
  BY <1>18 DEF vars
<1> QED
  BY <1>1, <1>2, <1>3, <1>4, <1>5, <1>6, <1>7, <1>8, <1>9,
     <1>10, <1>11, <1>12, <1>13, <1>14, <1>15, <1>16, <1>17, <1>18,
     NextCases
    DEF Step


\* Mutual exclusion is kept.
LEMMA OwnerStep ==
  ASSUME Types, OwnerInside, [Next]_vars
  PROVE  OwnerInside'
<1> USE NoThreadOutside
  DEF Types, MutexTypes, ThreadTypes, OwnerInside, Places, Critical, vars, device,
      session, call, thread, history
<1>1. ASSUME NEW t \in Threads, NEW o \in Ops, NEW a \in Angles, Request(t, o, a)
      PROVE  OwnerInside'
  BY <1>1 DEF Request, Start, Goto
<1>2. ASSUME NEW t \in Threads, Check(t) PROVE OwnerInside'
  BY <1>2 DEF Check, Goto
<1>3. ASSUME NEW t \in Threads, Lock(t) PROVE OwnerInside'
  BY <1>3 DEF Lock, Goto
<1>4. ASSUME NEW t \in Threads, Unlock(t) PROVE OwnerInside'
  BY <1>4 DEF Unlock, Goto
<1>5. ASSUME NEW t \in Threads, Leave(t) PROVE OwnerInside'
  BY <1>5 DEF Leave, Goto
<1>6. ASSUME NEW t \in Threads, Open(t) PROVE OwnerInside'
  BY <1>6 DEF Open, Goto, Finish, KeepHandle, KeepAngle, CloseHandle, Retries
<1>7. ASSUME NEW t \in Threads, Prepare(t) PROVE OwnerInside'
  BY <1>7 DEF Prepare, Goto, Finish, Touch, Live, AttemptFailed, CloseHandle, KeepHandle,
         KeepAngle, Retries
<1>8. ASSUME NEW t \in Threads, PrepareCamera(t) PROVE OwnerInside'
  BY <1>8 DEF PrepareCamera, Goto, Finish
<1>9. ASSUME NEW t \in Threads, SetLed(t) PROVE OwnerInside'
  BY <1>9 DEF SetLed, Goto, Finish, Touch, Live, AttemptFailed, CloseHandle, KeepHandle,
         KeepAngle, Retries
<1>10. ASSUME NEW t \in Threads, ReadStatus(t) PROVE OwnerInside'
  BY <1>10 DEF ReadStatus, Goto, Finish, Touch, Live, RememberAngle, AngleReported,
         AttemptFailed, CloseHandle, KeepHandle, KeepAngle, Retries
<1>11. ASSUME NEW t \in Threads, IssueTilt(t) PROVE OwnerInside'
  BY <1>11 DEF IssueTilt, Transferred, NotTransferred, Commit, Goto, Finish, Touch, Live,
         AttemptFailed, CloseHandle, KeepHandle, KeepAngle, Retries
<1>12. ASSUME NEW t \in Threads, Poll1414(t) PROVE OwnerInside'
  BY <1>12 DEF Poll1414, Goto, Finish, Live, RememberAngle, KeepAngle, AngleReported
<1>13. ASSUME NEW t \in Threads, QuietElapsed1473(t) PROVE OwnerInside'
  BY <1>13 DEF QuietElapsed1473, Goto
<1>14. ASSUME NEW t \in Threads, FinalRead1473(t) PROVE OwnerInside'
  BY <1>14 DEF FinalRead1473, Goto, Finish, Touch, Live, RememberAngle, KeepAngle, AngleReported
<1>15. ASSUME MotorStops PROVE OwnerInside'
  BY <1>15 DEF MotorStops
<1>16. ASSUME Unplug PROVE OwnerInside'
  BY <1>16 DEF Unplug
<1>17. ASSUME Replug PROVE OwnerInside'
  BY <1>17 DEF Replug
<1>18. ASSUME UNCHANGED vars PROVE OwnerInside'
  BY <1>18 DEF vars
<1> QED
  BY <1>1, <1>2, <1>3, <1>4, <1>5, <1>6, <1>7, <1>8, <1>9,
     <1>10, <1>11, <1>12, <1>13, <1>14, <1>15, <1>16, <1>17, <1>18,
     NextCases
    DEF Step

\* The place of a thread still tells its operation.
LEMMA PlaceStep ==
  ASSUME Types, PlaceOfOp, [Next]_vars
  PROVE  PlaceOfOp'
<1> USE ThreadsAssumption
  DEF Types, ThreadTypes, PlaceOfOp, Ops, ClientOps, CheckedOps, vars, device, session,
      call, thread, history
<1>1. ASSUME NEW t \in Threads, NEW o \in Ops, NEW a \in Angles, Request(t, o, a)
      PROVE  PlaceOfOp'
  BY <1>1 DEF Request, Start, Goto
<1>2. ASSUME NEW t \in Threads, Check(t) PROVE PlaceOfOp'
  BY <1>2 DEF Check, Goto
<1>3. ASSUME NEW t \in Threads, Lock(t) PROVE PlaceOfOp'
  BY <1>3 DEF Lock, Goto
<1>4. ASSUME NEW t \in Threads, Unlock(t) PROVE PlaceOfOp'
  BY <1>4 DEF Unlock, Goto
<1>5. ASSUME NEW t \in Threads, Leave(t) PROVE PlaceOfOp'
  BY <1>5 DEF Leave, Goto
<1>6. ASSUME NEW t \in Threads, Open(t) PROVE PlaceOfOp'
  BY <1>6 DEF Open, Goto, Finish, KeepHandle, KeepAngle, CloseHandle, Retries
<1>7. ASSUME NEW t \in Threads, Prepare(t) PROVE PlaceOfOp'
  BY <1>7 DEF Prepare, Goto, Finish, Touch, Live, AttemptFailed, CloseHandle, KeepHandle,
         KeepAngle, Retries
<1>8. ASSUME NEW t \in Threads, PrepareCamera(t) PROVE PlaceOfOp'
  BY <1>8 DEF PrepareCamera, Goto, Finish
<1>9. ASSUME NEW t \in Threads, SetLed(t) PROVE PlaceOfOp'
  BY <1>9 DEF SetLed, Goto, Finish, Touch, Live, AttemptFailed, CloseHandle, KeepHandle,
         KeepAngle, Retries
<1>10. ASSUME NEW t \in Threads, ReadStatus(t) PROVE PlaceOfOp'
  BY <1>10 DEF ReadStatus, Goto, Finish, Touch, Live, RememberAngle, AngleReported,
         AttemptFailed, CloseHandle, KeepHandle, KeepAngle, Retries
<1>11. ASSUME NEW t \in Threads, IssueTilt(t) PROVE PlaceOfOp'
  BY <1>11 DEF IssueTilt, Transferred, NotTransferred, Commit, Goto, Finish, Touch, Live,
         AttemptFailed, CloseHandle, KeepHandle, KeepAngle, Retries
<1>12. ASSUME NEW t \in Threads, Poll1414(t) PROVE PlaceOfOp'
  BY <1>12 DEF Poll1414, Goto, Finish, Live, RememberAngle, KeepAngle, AngleReported
<1>13. ASSUME NEW t \in Threads, QuietElapsed1473(t) PROVE PlaceOfOp'
  BY <1>13 DEF QuietElapsed1473, Goto
<1>14. ASSUME NEW t \in Threads, FinalRead1473(t) PROVE PlaceOfOp'
  BY <1>14 DEF FinalRead1473, Goto, Finish, Touch, Live, RememberAngle, KeepAngle, AngleReported
<1>15. ASSUME MotorStops PROVE PlaceOfOp'
  BY <1>15 DEF MotorStops
<1>16. ASSUME Unplug PROVE PlaceOfOp'
  BY <1>16 DEF Unplug
<1>17. ASSUME Replug PROVE PlaceOfOp'
  BY <1>17 DEF Replug
<1>18. ASSUME UNCHANGED vars PROVE PlaceOfOp'
  BY <1>18 DEF vars
<1> QED
  BY <1>1, <1>2, <1>3, <1>4, <1>5, <1>6, <1>7, <1>8, <1>9,
     <1>10, <1>11, <1>12, <1>13, <1>14, <1>15, <1>16, <1>17, <1>18,
     NextCases
    DEF Step

\* What a request has issued.
LEMMA IssuedStep ==
  ASSUME Types, OwnerInside, PlaceOfOp, Issuance, [Next]_vars
  PROVE  Issuance'
<1> USE NoThreadOutside
  DEF Types, ThreadTypes, MutexTypes, CallTypes, OwnerInside, PlaceOfOp, Issuance,
      CompletedIsLast, Critical, vars, device, session, call, thread, history
<1>1. ASSUME NEW t \in Threads, NEW o \in Ops, NEW a \in Angles, Request(t, o, a)
      PROVE  Issuance'
  BY <1>1 DEF Request, Start, Goto
<1>2. ASSUME NEW t \in Threads, Check(t) PROVE Issuance'
  BY <1>2 DEF Check, Goto
<1>3. ASSUME NEW t \in Threads, Lock(t) PROVE Issuance'
  BY <1>3 DEF Lock, Goto
<1>4. ASSUME NEW t \in Threads, Unlock(t) PROVE Issuance'
  BY <1>4 DEF Unlock, Goto
<1>5. ASSUME NEW t \in Threads, Leave(t) PROVE Issuance'
  BY <1>5 DEF Leave, Goto
<1>6. ASSUME NEW t \in Threads, Open(t) PROVE Issuance'
  BY <1>6 DEF Open, Goto, Finish, KeepHandle, KeepAngle, CloseHandle, Retries
<1>7. ASSUME NEW t \in Threads, Prepare(t) PROVE Issuance'
  BY <1>7 DEF Prepare, Goto, Finish, Touch, Live, AttemptFailed, CloseHandle, KeepHandle,
         KeepAngle, Retries
<1>8. ASSUME NEW t \in Threads, PrepareCamera(t) PROVE Issuance'
  BY <1>8 DEF PrepareCamera, Goto, Finish
<1>9. ASSUME NEW t \in Threads, SetLed(t) PROVE Issuance'
  BY <1>9 DEF SetLed, Goto, Finish, Touch, Live, AttemptFailed, CloseHandle, KeepHandle,
         KeepAngle, Retries
<1>10. ASSUME NEW t \in Threads, ReadStatus(t) PROVE Issuance'
  BY <1>10 DEF ReadStatus, Goto, Finish, Touch, Live, RememberAngle, AngleReported,
         AttemptFailed, CloseHandle, KeepHandle, KeepAngle, Retries
<1>11. ASSUME NEW t \in Threads, IssueTilt(t) PROVE Issuance'
  BY <1>11 DEF IssueTilt, Transferred, NotTransferred, Commit, Goto, Finish, Touch, Live,
         AttemptFailed, CloseHandle, KeepHandle, KeepAngle, Retries
<1>12. ASSUME NEW t \in Threads, Poll1414(t) PROVE Issuance'
  BY <1>12 DEF Poll1414, Goto, Finish, Live, RememberAngle, KeepAngle, AngleReported
<1>13. ASSUME NEW t \in Threads, QuietElapsed1473(t) PROVE Issuance'
  BY <1>13 DEF QuietElapsed1473, Goto
<1>14. ASSUME NEW t \in Threads, FinalRead1473(t) PROVE Issuance'
  BY <1>14 DEF FinalRead1473, Goto, Finish, Touch, Live, RememberAngle, KeepAngle, AngleReported
<1>15. ASSUME MotorStops PROVE Issuance'
  BY <1>15 DEF MotorStops
<1>16. ASSUME Unplug PROVE Issuance'
  BY <1>16 DEF Unplug
<1>17. ASSUME Replug PROVE Issuance'
  BY <1>17 DEF Replug
<1>18. ASSUME UNCHANGED vars PROVE Issuance'
  BY <1>18 DEF vars
<1> QED
  BY <1>1, <1>2, <1>3, <1>4, <1>5, <1>6, <1>7, <1>8, <1>9,
     <1>10, <1>11, <1>12, <1>13, <1>14, <1>15, <1>16, <1>17, <1>18,
     NextCases
    DEF Step

\* A tilt whose transfer was complete is answered with success.
LEMMA CompletedStep ==
  ASSUME Types, OwnerInside, PlaceOfOp, Issuance, CompletedTiltSucceeds, [Next]_vars
  PROVE  CompletedTiltSucceeds'
<1> USE NoThreadOutside
  DEF Types, ThreadTypes, MutexTypes, OwnerInside, PlaceOfOp, Issuance, Critical,
      CompletedTiltSucceeds, InTilt, vars, device, session, call, thread, history
<1>1. ASSUME NEW t \in Threads, NEW o \in Ops, NEW a \in Angles, Request(t, o, a)
      PROVE  CompletedTiltSucceeds'
  BY <1>1 DEF Request, Start, Goto
<1>2. ASSUME NEW t \in Threads, Check(t) PROVE CompletedTiltSucceeds'
  BY <1>2 DEF Check, Goto
<1>3. ASSUME NEW t \in Threads, Lock(t) PROVE CompletedTiltSucceeds'
  BY <1>3 DEF Lock, Goto
<1>4. ASSUME NEW t \in Threads, Unlock(t) PROVE CompletedTiltSucceeds'
  BY <1>4 DEF Unlock, Goto
<1>5. ASSUME NEW t \in Threads, Leave(t) PROVE CompletedTiltSucceeds'
  BY <1>5 DEF Leave, Goto
<1>6. ASSUME NEW t \in Threads, Open(t) PROVE CompletedTiltSucceeds'
  BY <1>6 DEF Open, Goto, Finish, KeepHandle, KeepAngle, CloseHandle, Retries
<1>7. ASSUME NEW t \in Threads, Prepare(t) PROVE CompletedTiltSucceeds'
  BY <1>7 DEF Prepare, Goto, Finish, Touch, Live, AttemptFailed, CloseHandle, KeepHandle,
         KeepAngle, Retries
<1>8. ASSUME NEW t \in Threads, PrepareCamera(t) PROVE CompletedTiltSucceeds'
  BY <1>8 DEF PrepareCamera, Goto, Finish
<1>9. ASSUME NEW t \in Threads, SetLed(t) PROVE CompletedTiltSucceeds'
  BY <1>9 DEF SetLed, Goto, Finish, Touch, Live, AttemptFailed, CloseHandle, KeepHandle,
         KeepAngle, Retries
<1>10. ASSUME NEW t \in Threads, ReadStatus(t) PROVE CompletedTiltSucceeds'
  BY <1>10 DEF ReadStatus, Goto, Finish, Touch, Live, RememberAngle, AngleReported,
         AttemptFailed, CloseHandle, KeepHandle, KeepAngle, Retries
<1>11. ASSUME NEW t \in Threads, IssueTilt(t) PROVE CompletedTiltSucceeds'
  BY <1>11 DEF IssueTilt, Transferred, NotTransferred, Commit, Goto, Finish, Touch, Live,
         AttemptFailed, CloseHandle, KeepHandle, KeepAngle, Retries
<1>12. ASSUME NEW t \in Threads, Poll1414(t) PROVE CompletedTiltSucceeds'
  BY <1>12 DEF Poll1414, Goto, Finish, Live, RememberAngle, KeepAngle, AngleReported
<1>13. ASSUME NEW t \in Threads, QuietElapsed1473(t) PROVE CompletedTiltSucceeds'
  BY <1>13 DEF QuietElapsed1473, Goto
<1>14. ASSUME NEW t \in Threads, FinalRead1473(t) PROVE CompletedTiltSucceeds'
  BY <1>14 DEF FinalRead1473, Goto, Finish, Touch, Live, RememberAngle, KeepAngle, AngleReported
<1>15. ASSUME MotorStops PROVE CompletedTiltSucceeds'
  BY <1>15 DEF MotorStops
<1>16. ASSUME Unplug PROVE CompletedTiltSucceeds'
  BY <1>16 DEF Unplug
<1>17. ASSUME Replug PROVE CompletedTiltSucceeds'
  BY <1>17 DEF Replug
<1>18. ASSUME UNCHANGED vars PROVE CompletedTiltSucceeds'
  BY <1>18 DEF vars
<1> QED
  BY <1>1, <1>2, <1>3, <1>4, <1>5, <1>6, <1>7, <1>8, <1>9,
     <1>10, <1>11, <1>12, <1>13, <1>14, <1>15, <1>16, <1>17, <1>18,
     NextCases
    DEF Step

\* A 1473 handle is used only after its priming command.
LEMMA GreenedStep ==
  ASSUME Types, OwnerInside, PlaceOfOp, PrimedIsGreened, PrimedBeforeTraffic, [Next]_vars
  PROVE  (PrimedIsGreened /\ PrimedBeforeTraffic)'
<1> USE NoThreadOutside
  DEF Types, ThreadTypes, MutexTypes, FlagTypes, OwnerInside, PlaceOfOp,
      PrimedIsGreened, PrimedBeforeTraffic, Critical, Kinds, vars, device, session,
      call, thread, history
<1>1. ASSUME NEW t \in Threads, NEW o \in Ops, NEW a \in Angles, Request(t, o, a)
      PROVE  (PrimedIsGreened /\ PrimedBeforeTraffic)'
  BY <1>1 DEF Request, Start, Goto
<1>2. ASSUME NEW t \in Threads, Check(t) PROVE (PrimedIsGreened /\ PrimedBeforeTraffic)'
  BY <1>2 DEF Check, Goto
<1>3. ASSUME NEW t \in Threads, Lock(t) PROVE (PrimedIsGreened /\ PrimedBeforeTraffic)'
  BY <1>3 DEF Lock, Goto
<1>4. ASSUME NEW t \in Threads, Unlock(t) PROVE (PrimedIsGreened /\ PrimedBeforeTraffic)'
  BY <1>4 DEF Unlock, Goto
<1>5. ASSUME NEW t \in Threads, Leave(t) PROVE (PrimedIsGreened /\ PrimedBeforeTraffic)'
  BY <1>5 DEF Leave, Goto
<1>6. ASSUME NEW t \in Threads, Open(t) PROVE (PrimedIsGreened /\ PrimedBeforeTraffic)'
  BY <1>6 DEF Open, Goto, Finish, KeepHandle, KeepAngle, CloseHandle, Retries
<1>7. ASSUME NEW t \in Threads, Prepare(t) PROVE (PrimedIsGreened /\ PrimedBeforeTraffic)'
  BY <1>7 DEF Prepare, Goto, Finish, Touch, Live, AttemptFailed, CloseHandle, KeepHandle,
         KeepAngle, Retries
<1>8. ASSUME NEW t \in Threads, PrepareCamera(t)
      PROVE  (PrimedIsGreened /\ PrimedBeforeTraffic)'
  BY <1>8 DEF PrepareCamera, Goto, Finish
<1>9. ASSUME NEW t \in Threads, SetLed(t) PROVE (PrimedIsGreened /\ PrimedBeforeTraffic)'
  BY <1>9 DEF SetLed, Goto, Finish, Touch, Live, AttemptFailed, CloseHandle, KeepHandle,
         KeepAngle, Retries
<1>10. ASSUME NEW t \in Threads, ReadStatus(t)
       PROVE  (PrimedIsGreened /\ PrimedBeforeTraffic)'
  BY <1>10 DEF ReadStatus, Goto, Finish, Touch, Live, RememberAngle, AngleReported,
         AttemptFailed, CloseHandle, KeepHandle, KeepAngle, Retries
<1>11. ASSUME NEW t \in Threads, IssueTilt(t)
       PROVE  (PrimedIsGreened /\ PrimedBeforeTraffic)'
  BY <1>11 DEF IssueTilt, Transferred, NotTransferred, Commit, Goto, Finish, Touch, Live,
         AttemptFailed, CloseHandle, KeepHandle, KeepAngle, Retries
<1>12. ASSUME NEW t \in Threads, Poll1414(t) PROVE (PrimedIsGreened /\ PrimedBeforeTraffic)'
  BY <1>12 DEF Poll1414, Goto, Finish, Live, RememberAngle, KeepAngle, AngleReported
<1>13. ASSUME NEW t \in Threads, QuietElapsed1473(t)
       PROVE  (PrimedIsGreened /\ PrimedBeforeTraffic)'
  BY <1>13 DEF QuietElapsed1473, Goto
<1>14. ASSUME NEW t \in Threads, FinalRead1473(t)
       PROVE  (PrimedIsGreened /\ PrimedBeforeTraffic)'
  BY <1>14 DEF FinalRead1473, Goto, Finish, Touch, Live, RememberAngle, KeepAngle, AngleReported
<1>15. ASSUME MotorStops PROVE (PrimedIsGreened /\ PrimedBeforeTraffic)'
  BY <1>15 DEF MotorStops
<1>16. ASSUME Unplug PROVE (PrimedIsGreened /\ PrimedBeforeTraffic)'
  BY <1>16 DEF Unplug
<1>17. ASSUME Replug PROVE (PrimedIsGreened /\ PrimedBeforeTraffic)'
  BY <1>17 DEF Replug
<1>18. ASSUME UNCHANGED vars PROVE (PrimedIsGreened /\ PrimedBeforeTraffic)'
  BY <1>18 DEF vars
<1> QED
  BY <1>1, <1>2, <1>3, <1>4, <1>5, <1>6, <1>7, <1>8, <1>9,
     <1>10, <1>11, <1>12, <1>13, <1>14, <1>15, <1>16, <1>17, <1>18,
     NextCases
    DEF Step

\* A travel the session knows is not disturbed.
LEMMA TravelStep ==
  ASSUME IInv, [Next]_vars
  PROVE  (TravelWatched /\ SilentKnownTravel)'
<1> USE NoThreadOutside
  DEF Types, ThreadTypes, IInv, MutexTypes, FlagTypes, OwnerInside, PlaceOfOp,
      TravelWatched, SilentKnownTravel, Critical, Kinds, vars, device, session, call,
      thread, history
<1>1. ASSUME NEW t \in Threads, NEW o \in Ops, NEW a \in Angles, Request(t, o, a)
      PROVE  (TravelWatched /\ SilentKnownTravel)'
  <2>1. SUFFICES ASSUME kind' = "Audio1473", moving', ~excused'
                 PROVE  TravelWatched'
    BY <1>1 DEF Request, Start
  <2>2. PICK u \in Threads : mutex = u /\ pc[u] = "wait" /\ goal = req[u] /\ ~BeliefWrong
    BY <1>1, <2>1 DEF Request, Start
  <2>3. mutex' = u /\ pc'[u] = "wait" /\ goal' = req'[u] /\ ~BeliefWrong'
    BY <1>1, <2>2 DEF Request, Start, Goto, BeliefWrong
  <2> QED
    BY <2>3
<1>2. ASSUME NEW t \in Threads, Check(t) PROVE (TravelWatched /\ SilentKnownTravel)'
  <2>1. SUFFICES ASSUME kind' = "Audio1473", moving', ~excused'
                 PROVE  TravelWatched'
    BY <1>2 DEF Check
  <2>2. PICK u \in Threads : mutex = u /\ pc[u] = "wait" /\ goal = req[u] /\ ~BeliefWrong
    BY <1>2, <2>1 DEF Check
  <2>3. mutex' = u /\ pc'[u] = "wait" /\ goal' = req'[u] /\ ~BeliefWrong'
    BY <1>2, <2>2 DEF Check, Goto, BeliefWrong
  <2> QED
    BY <2>3
<1>3. ASSUME NEW t \in Threads, Lock(t) PROVE (TravelWatched /\ SilentKnownTravel)'
  BY <1>3 DEF Lock, Goto
<1>4. ASSUME NEW t \in Threads, Unlock(t) PROVE (TravelWatched /\ SilentKnownTravel)'
  BY <1>4 DEF Unlock, Goto
<1>5. ASSUME NEW t \in Threads, Leave(t) PROVE (TravelWatched /\ SilentKnownTravel)'
  <2>1. SUFFICES ASSUME kind' = "Audio1473", moving', ~excused'
                 PROVE  TravelWatched'
    BY <1>5 DEF Leave
  <2>2. PICK u \in Threads : mutex = u /\ pc[u] = "wait" /\ goal = req[u] /\ ~BeliefWrong
    BY <1>5, <2>1 DEF Leave
  <2>3. mutex' = u /\ pc'[u] = "wait" /\ goal' = req'[u] /\ ~BeliefWrong'
    BY <1>5, <2>2 DEF Leave, Goto, BeliefWrong
  <2> QED
    BY <2>3
<1>6. ASSUME NEW t \in Threads, Open(t) PROVE (TravelWatched /\ SilentKnownTravel)'
  BY <1>6 DEF Open, Goto, Finish, KeepHandle, KeepAngle, CloseHandle, Retries
<1>7. ASSUME NEW t \in Threads, Prepare(t) PROVE (TravelWatched /\ SilentKnownTravel)'
  BY <1>7 DEF Prepare, Goto, Finish, Touch, Live, AttemptFailed, CloseHandle, KeepHandle,
         KeepAngle, Retries
<1>8. ASSUME NEW t \in Threads, PrepareCamera(t) PROVE (TravelWatched /\ SilentKnownTravel)'
  BY <1>8 DEF PrepareCamera, Goto, Finish
<1>9. ASSUME NEW t \in Threads, SetLed(t) PROVE (TravelWatched /\ SilentKnownTravel)'
  BY <1>9 DEF SetLed, Goto, Finish, Touch, Live, AttemptFailed, CloseHandle, KeepHandle,
         KeepAngle, Retries
<1>10. ASSUME NEW t \in Threads, ReadStatus(t) PROVE (TravelWatched /\ SilentKnownTravel)'
  BY <1>10 DEF ReadStatus, Goto, Finish, Touch, Live, RememberAngle, AngleReported,
         AttemptFailed, CloseHandle, KeepHandle, KeepAngle, Retries
<1>11. ASSUME NEW t \in Threads, IssueTilt(t) PROVE (TravelWatched /\ SilentKnownTravel)'
  <2>1. mutex = t
    BY <1>11 DEF IssueTilt
  <2>2. kind = "Audio1473" /\ moving => excused
    BY <1>11, <2>1 DEF IssueTilt
  <2>3. CASE Transferred(t)
    <3>1. kind' = kind /\ mutex' = t /\ goal' = req'[t]
          /\ disturbed' = (kind = "Audio1473" /\ moving)
      BY <1>11, <2>1, <2>3 DEF IssueTilt, Transferred, Commit, Goto
    <3>2. BeliefWrong' <=> BeliefWrong
      BY <2>3 DEF Transferred, Commit, KeepAngle, BeliefWrong
    <3>3. CASE excused' = (BeliefWrong \/ (moving /\ excused)) /\ Goto(t, "wait")
      <4>1. pc'[t] = "wait"
        BY <3>3 DEF Goto
      <4> QED
        BY <2>2, <3>1, <3>2, <3>3, <4>1
    <3>4. CASE excused' = TRUE
      BY <3>4
    <3> QED
      BY <2>3, <3>3, <3>4 DEF Transferred
  <2>4. CASE NotTransferred(t)
    <3>1. CASE excused' = TRUE
      BY <3>1
    <3>2. CASE Touch /\ UNCHANGED <<kind, moving, excused>>
      BY <2>2, <3>2 DEF Touch
    <3> QED
      BY <2>4, <3>1, <3>2 DEF NotTransferred
  <2> QED
    BY <1>11, <2>3, <2>4 DEF IssueTilt
<1>12. ASSUME NEW t \in Threads, Poll1414(t) PROVE (TravelWatched /\ SilentKnownTravel)'
  BY <1>12 DEF Poll1414, Goto, Finish, Live, RememberAngle, KeepAngle, AngleReported
<1>13. ASSUME NEW t \in Threads, QuietElapsed1473(t)
       PROVE  (TravelWatched /\ SilentKnownTravel)'
  <2>1. mutex = t /\ goal \in -27..27 /\ angle \in -27..27
    BY <1>13, AnglesAssumption DEF QuietElapsed1473, DeviceTypes
  <2>2. ASSUME goal = req[t], ~BeliefWrong
        PROVE  QuietMs(req[t]) >= TravelMs
    <3>1. BelievedDistance(req[t]) >= Distance(goal, angle)
      BY <2>1, <2>2 DEF BeliefWrong, BelievedDistance, Distance, FullRange
    <3>2. BelievedDistance(req[t]) \in Int /\ Distance(goal, angle) \in Int
      BY <2>1, <2>2 DEF BeliefWrong, BelievedDistance, Distance, FullRange
    <3> QED
      BY <3>1, <3>2 DEF QuietMs, TravelMs
  <2>3. kind = "Audio1473" /\ moving => excused
    BY <1>13, <2>1, <2>2 DEF QuietElapsed1473
  <2> QED
    BY <1>13, <2>3 DEF QuietElapsed1473, Goto
<1>14. ASSUME NEW t \in Threads, FinalRead1473(t)
       PROVE  (TravelWatched /\ SilentKnownTravel)'
  BY <1>14 DEF FinalRead1473, Goto, Finish, Touch, Live, RememberAngle, KeepAngle, AngleReported
<1>15. ASSUME MotorStops PROVE (TravelWatched /\ SilentKnownTravel)'
  BY <1>15 DEF MotorStops
<1>16. ASSUME Unplug PROVE (TravelWatched /\ SilentKnownTravel)'
  BY <1>16 DEF Unplug
<1>17. ASSUME Replug PROVE (TravelWatched /\ SilentKnownTravel)'
  <2>1. SUFFICES ASSUME kind' = "Audio1473", moving', ~excused'
                 PROVE  TravelWatched'
    BY <1>17 DEF Replug
  <2>2. PICK u \in Threads : mutex = u /\ pc[u] = "wait" /\ goal = req[u] /\ ~BeliefWrong
    BY <1>17, <2>1 DEF Replug
  <2>3. mutex' = u /\ pc'[u] = "wait" /\ goal' = req'[u] /\ ~BeliefWrong'
    BY <1>17, <2>2 DEF Replug, Goto, BeliefWrong
  <2> QED
    BY <2>3
<1>18. ASSUME UNCHANGED vars PROVE (TravelWatched /\ SilentKnownTravel)'
  <2>1. SUFFICES ASSUME kind' = "Audio1473", moving', ~excused'
                 PROVE  TravelWatched'
    BY <1>18 DEF vars
  <2>2. PICK u \in Threads : mutex = u /\ pc[u] = "wait" /\ goal = req[u] /\ ~BeliefWrong
    BY <1>18, <2>1 DEF vars
  <2>3. mutex' = u /\ pc'[u] = "wait" /\ goal' = req'[u] /\ ~BeliefWrong'
    BY <1>18, <2>2 DEF vars, Goto, BeliefWrong
  <2> QED
    BY <2>3
<1> QED
  BY <1>1, <1>2, <1>3, <1>4, <1>5, <1>6, <1>7, <1>8, <1>9,
     <1>10, <1>11, <1>12, <1>13, <1>14, <1>15, <1>16, <1>17, <1>18,
     NextCases
    DEF Step

\* The counter: a tilt that starts is added, a tilt that leaves is removed.
LEMMA CountedStep ==
  ASSUME Types, PlaceOfOp, Counted, [Next]_vars
  PROVE  Counted'
<1> DEFINE tilts == {t \in Threads : op[t] = "Tilt"}
<1>1. IsFiniteSet(Threads)
  BY ThreadsAssumption, FS_AddElement DEF Threads
<1>2. IsFiniteSet(tilts) /\ inFlight = Cardinality(tilts)
  <2>1. tilts \in SUBSET Threads
    OBVIOUS
  <2> QED
    BY <1>1, <2>1, FS_Subset DEF Counted, Tilting, InTilt
<1>3. SUFFICES inFlight' = Cardinality(tilts')
  BY DEF Counted, Tilting, InTilt
<1>4. ASSUME NEW t \in Threads, NEW o \in Ops, NEW a \in Angles, Request(t, o, a)
      PROVE  inFlight' = Cardinality(tilts')
  <2>1. t \notin tilts
    BY <1>4 DEF Request, Start, PlaceOfOp
  <2>2. CASE o = "Tilt"
    <3>1. tilts' = tilts \cup {t} /\ inFlight' = inFlight + 1
      BY <1>4, <2>2 DEF Request, Start, Types, ThreadTypes
    <3> QED
      BY <1>2, <2>1, <3>1, FS_AddElement
  <2>3. CASE o # "Tilt"
    <3>1. tilts' = tilts /\ inFlight' = inFlight
      BY <1>4, <2>1, <2>3 DEF Request, Start, Types, ThreadTypes
    <3> QED
      BY <1>2, <3>1
  <2> QED
    BY <2>2, <2>3
<1>5. ASSUME NEW t \in Threads, Leave(t)
      PROVE  inFlight' = Cardinality(tilts')
  <2>1. t \in tilts
    BY <1>5 DEF Leave, PlaceOfOp
  <2>2. tilts' = tilts \ {t} /\ inFlight' = inFlight - 1
    BY <1>5 DEF Leave, Types, ThreadTypes
  <2> QED
    BY <1>2, <2>1, <2>2, FS_RemoveElement
<1>6. ASSUME NEW t \in Threads, Check(t) \/ Unlock(t)
      PROVE  inFlight' = Cardinality(tilts')
  <2>1. op[t] # "Tilt" \/ op' = op
    BY <1>6 DEF Check, Unlock, PlaceOfOp, CheckedOps
  <2>2. tilts' = tilts /\ inFlight' = inFlight
    BY <1>6, <2>1 DEF Check, Unlock, Types, ThreadTypes
  <2> QED
    BY <1>2, <2>2
<1>7. ASSUME UNCHANGED <<op, inFlight>>
      PROVE  inFlight' = Cardinality(tilts')
  BY <1>2, <1>7
<1>8. ASSUME NEW t \in Threads, Step(t), ~Leave(t), ~Check(t), ~Unlock(t)
      PROVE  UNCHANGED <<op, inFlight>>
  BY <1>8 DEF Step, Lock, Open, Prepare, PrepareCamera, SetLed, ReadStatus, IssueTilt,
              Transferred, NotTransferred, Commit, Poll1414, QuietElapsed1473, FinalRead1473
<1>9. MotorStops \/ Unplug \/ Replug \/ UNCHANGED vars => UNCHANGED <<op, inFlight>>
  BY DEF MotorStops, Unplug, Replug, vars, thread
<1> QED
  BY <1>4, <1>5, <1>6, <1>7, <1>8, <1>9, NextCases

\* A handle is as old as the sensor's last plug-in, or older.
LEMMA HandleStep ==
  ASSUME Types, HandleKnown, [Next]_vars
  PROVE  HandleKnown'
<1> USE BoundsAssumption
  DEF Types, DeviceTypes, HandleTypes, HandleKnown, vars, device, session, call, thread,
      history
<1>1. ASSUME NEW t \in Threads, NEW o \in Ops, NEW a \in Angles, Request(t, o, a)
      PROVE  HandleKnown'
  BY <1>1 DEF Request, Start, Goto
<1>2. ASSUME NEW t \in Threads, Check(t) PROVE HandleKnown'
  BY <1>2 DEF Check, Goto
<1>3. ASSUME NEW t \in Threads, Lock(t) PROVE HandleKnown'
  BY <1>3 DEF Lock, Goto
<1>4. ASSUME NEW t \in Threads, Unlock(t) PROVE HandleKnown'
  BY <1>4 DEF Unlock, Goto
<1>5. ASSUME NEW t \in Threads, Leave(t) PROVE HandleKnown'
  BY <1>5 DEF Leave, Goto
<1>6. ASSUME NEW t \in Threads, Open(t) PROVE HandleKnown'
  BY <1>6 DEF Open, Goto, Finish, KeepHandle, KeepAngle, CloseHandle, Retries
<1>7. ASSUME NEW t \in Threads, Prepare(t) PROVE HandleKnown'
  BY <1>7 DEF Prepare, Goto, Finish, Touch, Live, AttemptFailed, CloseHandle, KeepHandle,
         KeepAngle, Retries
<1>8. ASSUME NEW t \in Threads, PrepareCamera(t) PROVE HandleKnown'
  BY <1>8 DEF PrepareCamera, Goto, Finish
<1>9. ASSUME NEW t \in Threads, SetLed(t) PROVE HandleKnown'
  BY <1>9 DEF SetLed, Goto, Finish, Touch, Live, AttemptFailed, CloseHandle, KeepHandle,
         KeepAngle, Retries
<1>10. ASSUME NEW t \in Threads, ReadStatus(t) PROVE HandleKnown'
  BY <1>10 DEF ReadStatus, Goto, Finish, Touch, Live, RememberAngle, AngleReported,
         AttemptFailed, CloseHandle, KeepHandle, KeepAngle, Retries
<1>11. ASSUME NEW t \in Threads, IssueTilt(t) PROVE HandleKnown'
  BY <1>11 DEF IssueTilt, Transferred, NotTransferred, Commit, Goto, Finish, Touch, Live,
         AttemptFailed, CloseHandle, KeepHandle, KeepAngle, Retries
<1>12. ASSUME NEW t \in Threads, Poll1414(t) PROVE HandleKnown'
  BY <1>12 DEF Poll1414, Goto, Finish, Live, RememberAngle, KeepAngle, AngleReported
<1>13. ASSUME NEW t \in Threads, QuietElapsed1473(t) PROVE HandleKnown'
  BY <1>13 DEF QuietElapsed1473, Goto
<1>14. ASSUME NEW t \in Threads, FinalRead1473(t) PROVE HandleKnown'
  BY <1>14 DEF FinalRead1473, Goto, Finish, Touch, Live, RememberAngle, KeepAngle, AngleReported
<1>15. ASSUME MotorStops PROVE HandleKnown'
  BY <1>15 DEF MotorStops
<1>16. ASSUME Unplug PROVE HandleKnown'
  BY <1>16 DEF Unplug
<1>17. ASSUME Replug PROVE HandleKnown'
  BY <1>17 DEF Replug
<1>18. ASSUME UNCHANGED vars PROVE HandleKnown'
  BY <1>18 DEF vars
<1> QED
  BY <1>1, <1>2, <1>3, <1>4, <1>5, <1>6, <1>7, <1>8, <1>9,
     <1>10, <1>11, <1>12, <1>13, <1>14, <1>15, <1>16, <1>17, <1>18,
     NextCases
    DEF Step

\* The verified bit is down until the reply.
LEMMA UnverifiedStep ==
  ASSUME Types, OwnerInside, VerifiedLast, [Next]_vars
  PROVE  VerifiedLast'
<1> USE NoThreadOutside
  DEF Types, ThreadTypes, MutexTypes, OwnerInside, VerifiedLast, Critical, vars, device,
      session, call, thread, history
<1>1. ASSUME NEW t \in Threads, NEW o \in Ops, NEW a \in Angles, Request(t, o, a)
      PROVE  VerifiedLast'
  BY <1>1 DEF Request, Start, Goto
<1>2. ASSUME NEW t \in Threads, Check(t) PROVE VerifiedLast'
  BY <1>2 DEF Check, Goto
<1>3. ASSUME NEW t \in Threads, Lock(t) PROVE VerifiedLast'
  BY <1>3 DEF Lock, Goto
<1>4. ASSUME NEW t \in Threads, Unlock(t) PROVE VerifiedLast'
  BY <1>4 DEF Unlock, Goto
<1>5. ASSUME NEW t \in Threads, Leave(t) PROVE VerifiedLast'
  BY <1>5 DEF Leave, Goto
<1>6. ASSUME NEW t \in Threads, Open(t) PROVE VerifiedLast'
  BY <1>6 DEF Open, Goto, Finish, KeepHandle, KeepAngle, CloseHandle, Retries
<1>7. ASSUME NEW t \in Threads, Prepare(t) PROVE VerifiedLast'
  BY <1>7 DEF Prepare, Goto, Finish, Touch, Live, AttemptFailed, CloseHandle, KeepHandle,
         KeepAngle, Retries
<1>8. ASSUME NEW t \in Threads, PrepareCamera(t) PROVE VerifiedLast'
  BY <1>8 DEF PrepareCamera, Goto, Finish
<1>9. ASSUME NEW t \in Threads, SetLed(t) PROVE VerifiedLast'
  BY <1>9 DEF SetLed, Goto, Finish, Touch, Live, AttemptFailed, CloseHandle, KeepHandle,
         KeepAngle, Retries
<1>10. ASSUME NEW t \in Threads, ReadStatus(t) PROVE VerifiedLast'
  BY <1>10 DEF ReadStatus, Goto, Finish, Touch, Live, RememberAngle, AngleReported,
         AttemptFailed, CloseHandle, KeepHandle, KeepAngle, Retries
<1>11. ASSUME NEW t \in Threads, IssueTilt(t) PROVE VerifiedLast'
  BY <1>11 DEF IssueTilt, Transferred, NotTransferred, Commit, Goto, Finish, Touch, Live,
         AttemptFailed, CloseHandle, KeepHandle, KeepAngle, Retries
<1>12. ASSUME NEW t \in Threads, Poll1414(t) PROVE VerifiedLast'
  BY <1>12 DEF Poll1414, Goto, Finish, Live, RememberAngle, KeepAngle, AngleReported
<1>13. ASSUME NEW t \in Threads, QuietElapsed1473(t) PROVE VerifiedLast'
  BY <1>13 DEF QuietElapsed1473, Goto
<1>14. ASSUME NEW t \in Threads, FinalRead1473(t) PROVE VerifiedLast'
  BY <1>14 DEF FinalRead1473, Goto, Finish, Touch, Live, RememberAngle, KeepAngle, AngleReported
<1>15. ASSUME MotorStops PROVE VerifiedLast'
  BY <1>15 DEF MotorStops
<1>16. ASSUME Unplug PROVE VerifiedLast'
  BY <1>16 DEF Unplug
<1>17. ASSUME Replug PROVE VerifiedLast'
  BY <1>17 DEF Replug
<1>18. ASSUME UNCHANGED vars PROVE VerifiedLast'
  BY <1>18 DEF vars
<1> QED
  BY <1>1, <1>2, <1>3, <1>4, <1>5, <1>6, <1>7, <1>8, <1>9,
     <1>10, <1>11, <1>12, <1>13, <1>14, <1>15, <1>16, <1>17, <1>18,
     NextCases
    DEF Step

\* The motor keeps the goal of the call that waits for it.
LEMMA GoalStep ==
  ASSUME Types, OwnerInside, HandleKnown, GoalIsRequest, [Next]_vars
  PROVE  GoalIsRequest'
<1> USE NoThreadOutside
  DEF Types, DeviceTypes, HandleTypes, ThreadTypes, MutexTypes, OwnerInside, HandleKnown,
      GoalIsRequest, Critical, Live, vars, device, session, call, thread, history
<1>1. ASSUME NEW t \in Threads, NEW o \in Ops, NEW a \in Angles, Request(t, o, a)
      PROVE  GoalIsRequest'
  BY <1>1 DEF Request, Start, Goto
<1>2. ASSUME NEW t \in Threads, Check(t) PROVE GoalIsRequest'
  BY <1>2 DEF Check, Goto
<1>3. ASSUME NEW t \in Threads, Lock(t) PROVE GoalIsRequest'
  BY <1>3 DEF Lock, Goto
<1>4. ASSUME NEW t \in Threads, Unlock(t) PROVE GoalIsRequest'
  BY <1>4 DEF Unlock, Goto
<1>5. ASSUME NEW t \in Threads, Leave(t) PROVE GoalIsRequest'
  BY <1>5 DEF Leave, Goto
<1>6. ASSUME NEW t \in Threads, Open(t) PROVE GoalIsRequest'
  BY <1>6 DEF Open, Goto, Finish, KeepHandle, KeepAngle, CloseHandle, Retries
<1>7. ASSUME NEW t \in Threads, Prepare(t) PROVE GoalIsRequest'
  BY <1>7 DEF Prepare, Goto, Finish, Touch, Live, AttemptFailed, CloseHandle, KeepHandle,
         KeepAngle, Retries
<1>8. ASSUME NEW t \in Threads, PrepareCamera(t) PROVE GoalIsRequest'
  BY <1>8 DEF PrepareCamera, Goto, Finish
<1>9. ASSUME NEW t \in Threads, SetLed(t) PROVE GoalIsRequest'
  BY <1>9 DEF SetLed, Goto, Finish, Touch, Live, AttemptFailed, CloseHandle, KeepHandle,
         KeepAngle, Retries
<1>10. ASSUME NEW t \in Threads, ReadStatus(t) PROVE GoalIsRequest'
  BY <1>10 DEF ReadStatus, Goto, Finish, Touch, Live, RememberAngle, AngleReported,
         AttemptFailed, CloseHandle, KeepHandle, KeepAngle, Retries
<1>11. ASSUME NEW t \in Threads, IssueTilt(t) PROVE GoalIsRequest'
  BY <1>11 DEF IssueTilt, Transferred, NotTransferred, Commit, Goto, Finish, Touch, Live,
         AttemptFailed, CloseHandle, KeepHandle, KeepAngle, Retries
<1>12. ASSUME NEW t \in Threads, Poll1414(t) PROVE GoalIsRequest'
  BY <1>12 DEF Poll1414, Goto, Finish, Live, RememberAngle, KeepAngle, AngleReported
<1>13. ASSUME NEW t \in Threads, QuietElapsed1473(t) PROVE GoalIsRequest'
  BY <1>13 DEF QuietElapsed1473, Goto
<1>14. ASSUME NEW t \in Threads, FinalRead1473(t) PROVE GoalIsRequest'
  BY <1>14 DEF FinalRead1473, Goto, Finish, Touch, Live, RememberAngle, KeepAngle, AngleReported
<1>15. ASSUME MotorStops PROVE GoalIsRequest'
  BY <1>15 DEF MotorStops
<1>16. ASSUME Unplug PROVE GoalIsRequest'
  BY <1>16 DEF Unplug
<1>17. ASSUME Replug PROVE GoalIsRequest'
  BY <1>17 DEF Replug
<1>18. ASSUME UNCHANGED vars PROVE GoalIsRequest'
  BY <1>18 DEF vars
<1> QED
  BY <1>1, <1>2, <1>3, <1>4, <1>5, <1>6, <1>7, <1>8, <1>9,
     <1>10, <1>11, <1>12, <1>13, <1>14, <1>15, <1>16, <1>17, <1>18,
     NextCases
    DEF Step

\* The verified bit tells where the motor stands.
LEMMA VerifiedStep ==
  ASSUME Types, OwnerInside, PlaceOfOp, Issuance, HandleKnown, VerifiedLast,
         GoalIsRequest, VerifiedIsOwnMove, [Next]_vars
  PROVE  VerifiedIsOwnMove'
<1> USE NoThreadOutside
  DEF Types, DeviceTypes, HandleTypes, ThreadTypes, MutexTypes, OwnerInside, PlaceOfOp,
      Issuance, HandleKnown, VerifiedLast, GoalIsRequest, VerifiedIsOwnMove, Critical,
      Live, vars, device, session, call, thread, history
<1>1. ASSUME NEW t \in Threads, NEW o \in Ops, NEW a \in Angles, Request(t, o, a)
      PROVE  VerifiedIsOwnMove'
  BY <1>1 DEF Request, Start, Goto
<1>2. ASSUME NEW t \in Threads, Check(t) PROVE VerifiedIsOwnMove'
  BY <1>2 DEF Check, Goto
<1>3. ASSUME NEW t \in Threads, Lock(t) PROVE VerifiedIsOwnMove'
  BY <1>3 DEF Lock, Goto
<1>4. ASSUME NEW t \in Threads, Unlock(t) PROVE VerifiedIsOwnMove'
  BY <1>4 DEF Unlock, Goto
<1>5. ASSUME NEW t \in Threads, Leave(t) PROVE VerifiedIsOwnMove'
  BY <1>5 DEF Leave, Goto
<1>6. ASSUME NEW t \in Threads, Open(t) PROVE VerifiedIsOwnMove'
  BY <1>6 DEF Open, Goto, Finish, KeepHandle, KeepAngle, CloseHandle, Retries
<1>7. ASSUME NEW t \in Threads, Prepare(t) PROVE VerifiedIsOwnMove'
  BY <1>7 DEF Prepare, Goto, Finish, Touch, Live, AttemptFailed, CloseHandle, KeepHandle,
         KeepAngle, Retries
<1>8. ASSUME NEW t \in Threads, PrepareCamera(t) PROVE VerifiedIsOwnMove'
  BY <1>8 DEF PrepareCamera, Goto, Finish
<1>9. ASSUME NEW t \in Threads, SetLed(t) PROVE VerifiedIsOwnMove'
  BY <1>9 DEF SetLed, Goto, Finish, Touch, Live, AttemptFailed, CloseHandle, KeepHandle,
         KeepAngle, Retries
<1>10. ASSUME NEW t \in Threads, ReadStatus(t) PROVE VerifiedIsOwnMove'
  BY <1>10 DEF ReadStatus, Goto, Finish, Touch, Live, RememberAngle, AngleReported,
         AttemptFailed, CloseHandle, KeepHandle, KeepAngle, Retries
<1>11. ASSUME NEW t \in Threads, IssueTilt(t) PROVE VerifiedIsOwnMove'
  BY <1>11 DEF IssueTilt, Transferred, NotTransferred, Commit, Goto, Finish, Touch, Live,
         AttemptFailed, CloseHandle, KeepHandle, KeepAngle, Retries
<1>12. ASSUME NEW t \in Threads, Poll1414(t) PROVE VerifiedIsOwnMove'
  BY <1>12 DEF Poll1414, Goto, Finish, Live, RememberAngle, KeepAngle, AngleReported
<1>13. ASSUME NEW t \in Threads, QuietElapsed1473(t) PROVE VerifiedIsOwnMove'
  BY <1>13 DEF QuietElapsed1473, Goto
<1>14. ASSUME NEW t \in Threads, FinalRead1473(t) PROVE VerifiedIsOwnMove'
  BY <1>14 DEF FinalRead1473, Goto, Finish, Touch, Live, RememberAngle, KeepAngle, AngleReported
<1>15. ASSUME MotorStops PROVE VerifiedIsOwnMove'
  BY <1>15 DEF MotorStops
<1>16. ASSUME Unplug PROVE VerifiedIsOwnMove'
  BY <1>16 DEF Unplug
<1>17. ASSUME Replug PROVE VerifiedIsOwnMove'
  BY <1>17 DEF Replug
<1>18. ASSUME UNCHANGED vars PROVE VerifiedIsOwnMove'
  BY <1>18 DEF vars
<1> QED
  BY <1>1, <1>2, <1>3, <1>4, <1>5, <1>6, <1>7, <1>8, <1>9,
     <1>10, <1>11, <1>12, <1>13, <1>14, <1>15, <1>16, <1>17, <1>18,
     NextCases
    DEF Step

-----------------------------------------------------------------------------
(* The theorems.                                                            *)

LEMMA InitIInv == Init => IInv
<1> SUFFICES ASSUME Init PROVE IInv
  OBVIOUS
<1>1. Types
  <2>1. DeviceTypes /\ MutexTypes /\ HandleTypes /\ AngleTypes
    <3>1. gen \in 0..MaxGen /\ handle \in 0..MaxGen
      BY BoundsAssumption DEF Init
    <3> QED
      BY <3>1 DEF Init, DeviceTypes, MutexTypes, HandleTypes, AngleTypes
  <2>2. CallTypes /\ FlagTypes
    <3>1. attempt \in 1..2 /\ polls \in 0..MaxPolls /\ issued \in Nat /\ accepted \in Nat
      BY BoundsAssumption DEF Init
    <3>2. FlagTypes
      BY DEF Init, FlagTypes
    <3> QED
      BY <3>1, <3>2 DEF Init, CallTypes, Results
  <2>3. ThreadTypes
    BY DEF Init, ThreadTypes, Places, Ops
  <2> QED
    BY <2>1, <2>2, <2>3 DEF Types
<1>2. OwnerInside /\ PlaceOfOp /\ Issuance /\ CompletedTiltSucceeds
  BY NoThreadOutside
    DEF Init, OwnerInside, PlaceOfOp, Issuance, CompletedIsLast, CompletedTiltSucceeds,
        Critical
<1>3. PrimedIsGreened /\ PrimedBeforeTraffic /\ TravelWatched /\ SilentKnownTravel
  BY DEF Init, PrimedIsGreened, PrimedBeforeTraffic, TravelWatched, SilentKnownTravel
<1>4. Counted
  <2>1. Tilting = {}
    BY DEF Init, Tilting, InTilt
  <2> QED
    BY <2>1, FS_EmptySet DEF Init, Counted
<1>5. HandleKnown /\ VerifiedLast /\ GoalIsRequest /\ VerifiedIsOwnMove
  BY DEF Init, HandleKnown, VerifiedLast, GoalIsRequest, VerifiedIsOwnMove, Critical
<1> QED
  BY <1>1, <1>2, <1>3, <1>4, <1>5 DEF IInv

LEMMA StepIInv == IInv /\ [Next]_vars => IInv'
<1> SUFFICES ASSUME IInv, [Next]_vars PROVE IInv'
  OBVIOUS
<1>1. Types'
  BY DeviceTypesStep, MutexTypesStep, HandleTypesStep, AngleTypesStep, CallTypesStep,
     ThreadTypesStep, FlagTypesStep DEF IInv, Types
<1>2. OwnerInside' /\ PlaceOfOp' /\ Counted' /\ Issuance'
  BY OwnerStep, PlaceStep, CountedStep, IssuedStep DEF IInv
<1>3. CompletedTiltSucceeds' /\ PrimedIsGreened' /\ PrimedBeforeTraffic'
  BY CompletedStep, GreenedStep DEF IInv
<1>4. TravelWatched' /\ SilentKnownTravel'
  BY TravelStep
<1>5. HandleKnown' /\ VerifiedLast' /\ GoalIsRequest' /\ VerifiedIsOwnMove'
  BY HandleStep, UnverifiedStep, GoalStep, VerifiedStep DEF IInv
<1> QED
  BY <1>1, <1>2, <1>3, <1>4, <1>5 DEF IInv

\* The invariant of one session: what a thread has done is known from where it is in the
\* operation, and tilt_in_flight_ is the number of threads inside tilt().
THEOREM Invariance == Spec => []IInv
BY InitIInv, StepIInv, PTL DEF Spec

\* The tilts in flight are finitely many threads, so the counter is a natural number.
LEMMA CounterPositive ==
  ASSUME Counted
  PROVE  inFlight \in Nat /\ \A t \in Tilting : inFlight > 0
<1>1. IsFiniteSet(Tilting)
  <2>1. IsFiniteSet(Threads)
    BY ThreadsAssumption, FS_AddElement DEF Threads
  <2>2. Tilting \in SUBSET Threads
    BY DEF Tilting
  <2> QED
    BY <2>1, <2>2, FS_Subset
<1>2. inFlight \in Nat
  BY <1>1, FS_CardinalityType DEF Counted
<1>3. ASSUME NEW t \in Tilting PROVE inFlight > 0
  <2>1. Cardinality(Tilting) # 0
    BY <1>1, <1>3, FS_EmptySet
  <2> QED
    BY <1>2, <2>1 DEF Counted
<1> QED
  BY <1>2, <1>3

\* Every variable keeps its type; the in-flight counter never goes below zero.
THEOREM TypeCorrect == Spec => []TypeOK
<1>1. IInv => TypeOK
  BY CounterPositive
  DEF IInv, Types, DeviceTypes, MutexTypes, HandleTypes, AngleTypes, CallTypes, ThreadTypes,
      FlagTypes, TypeOK
<1> QED
  BY <1>1, Invariance, PTL

\* Calls of one session exclude each other.
THEOREM MutualExclusion == Spec => []OwnerInside
<1>1. IInv => OwnerInside
  BY DEF IInv
<1> QED
  BY <1>1, Invariance, PTL

\* A tilt that owns the motor is visible in the in-flight counter.
THEOREM TiltVisible == Spec => []TiltOwnerVisible
<1>1. IInv => TiltOwnerVisible
  BY CounterPositive DEF IInv, TiltOwnerVisible, Tilting
<1> QED
  BY <1>1, Invariance, PTL

\* A command whose transfer was reported complete is never followed by another,
\* a 1473 never gets a second one, and a classic motor at most one for each of
\* the two attempts, whatever transfers fail with or without effect and whenever
\* the sensor is replugged.
THEOREM NoCommandAfterCompleted == Spec => []CompletedIsLast
<1>1. IInv => CompletedIsLast
  BY DEF IInv, Issuance
<1> QED
  BY <1>1, Invariance, PTL

\* The answer of a tilt is honest about the transfer of its command: success
\* exactly when one was reported complete, save for a failed 1473
\* acknowledgement.
THEOREM CompletedIsSuccess == Spec => []CompletedTiltSucceeds
<1>1. IInv => CompletedTiltSucceeds
  BY DEF IInv
<1> QED
  BY <1>1, Invariance, PTL

\* No motor or status traffic on a 1473 handle before its priming command.
THEOREM PrimingFirst == Spec => []PrimedBeforeTraffic
<1>1. IInv => PrimedBeforeTraffic
  BY DEF IInv
<1> QED
  BY <1>1, Invariance, PTL

\* The quiet time covers every travel whose start the session knows.
THEOREM QuietCoversTravel == Spec => []SilentKnownTravel
<1>1. IInv => SilentKnownTravel
  BY DEF IInv
<1> QED
  BY <1>1, Invariance, PTL

\* A reply says verified only when the motor stands where this request sent it,
\* as long as the sensor it was read from is still there.
THEOREM VerifiedMeansThere == Spec => []VerifiedIsOwnMove
<1>1. IInv => VerifiedIsOwnMove
  BY DEF IInv
<1> QED
  BY <1>1, Invariance, PTL
=============================================================================
