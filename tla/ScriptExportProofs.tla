-------------------------- MODULE ScriptExportProofs --------------------------
(***************************************************************************)
(* Theorems about ScriptExport, for every number of calls, every poll      *)
(* deadline and life of a URL, and every number of times a POST can happen. *)
(***************************************************************************)
EXTENDS ScriptExport, TLAPS

USE TimesAssumption

(***************************************************************************)
(* What holds of one call, wherever it is.                                 *)
(***************************************************************************)

\* The functions of TypeOK are functions of the calls.
TypeInv ==
    /\ TypeOK
    /\ sessions = [c \in Calls |-> sessions[c]]
    /\ run = [c \in Calls |-> run[c]]

\* What was uploaded under a call's key is the call's, and so is what it read;
\* it reads before it deletes.
Own(c) == [call : {c}, csv : BOOLEAN]
TextInv(c) ==
    /\ objects[c] \in Own(c) \cup {NoText}
    /\ text[c] \in Own(c) \cup {NoText}
    /\ text[c] # NoText => call[c].at \in {"delete"} \cup Ended
    /\ call[c].at = "delete" => text[c] # NoText
    /\ call[c].at = "returned" /\ mode[c].live => text[c] # NoText /\ text[c].csv

\* Where a vendor's calls can be, and where a Carbon Black one has a session.
SessionFault(f) == f \cap {"not ready", "open repeated", "close failed"} # {}
Before == {"idle", "deploy", "open"}
InSession == {"ready", "stage", "execute", "poll", "close"}
SessionInv(c) ==
    /\ call[c].at = "upload" => mode[c].vendor = "sentinelone"
    /\ call[c].at \in {"open", "ready", "stage", "close"} => mode[c].vendor = "carbonblack"
    /\ mode[c].vendor # "carbonblack" => sessions[c] = 0
    /\ call[c].at \in Before \cup {"upload"} => sessions[c] = 0
    /\ call[c].at \in InSession /\ mode[c].vendor = "carbonblack" => sessions[c] > 0
    /\ sessions[c] > 1 => "open repeated" \in faults[c]
    /\ call[c].at \in {"read", "delete", "returned", "raised"} /\ sessions[c] > 0 =>
          SessionFault(faults[c])

\* A call that read its object knows that the execution it started has ended,
\* and there is another one only if the start was retried.
ObjectFault(f) == f \cap {"start repeated", "delete failed"} # {}
Read(c) ==
    \/ call[c].at \in {"read", "delete"} \/ text[c] # NoText
    \/ call[c].at = "close" /\ call[c].ok
RunInv(c) ==
    /\ "start repeated" \notin faults[c] => \A i \in RunIds(c) : i > 1 => run[c][i] = "none"
    /\ Read(c) => run[c][1] = "ended"
    /\ call[c].at \in {"returned", "raised"} /\ text[c] # NoText /\ objects[c] # NoText =>
          ObjectFault(faults[c])

CallInv(c) == TextInv(c) /\ SessionInv(c) /\ RunInv(c)
Inv == TypeInv /\ \A c \in Calls : CallInv(c)

(***************************************************************************)
(* A step of one call.                                                     *)
(***************************************************************************)

\* What may go wrong around a call.
Fault == {"open repeated", "not ready", "close failed", "start repeated", "delete failed"}

\* A call goes to a label, with a deadline and a verdict; no other call moves.
CallRecord == [at : At, left : 0..PollTimeout, ok : BOOLEAN]
GoesTo(c, label, left, ok) ==
    /\ call' \in [Calls -> CallRecord]
    /\ call'[c].at = label /\ call'[c].left = left /\ call'[c].ok = ok
    /\ \A d \in Calls \ {c} : call'[d] = call[d]

\* A call's new place is set.
LEMMA Moves ==
  ASSUME call \in [Calls -> CallRecord], NEW c \in Calls,
         NEW label \in At, NEW left \in 0..PollTimeout, NEW ok \in BOOLEAN,
         call' = [call EXCEPT ![c] = [call[c] EXCEPT !.at = label, !.left = left, !.ok = ok]]
  PROVE  GoesTo(c, label, left, ok)
<1>1. [call[c] EXCEPT !.at = label, !.left = left, !.ok = ok] \in CallRecord
  BY DEF CallRecord
<1>2. QED
  BY <1>1 DEF GoesTo, CallRecord

\* Going on keeps the verdict.
LEMMA GotoGoes ==
  ASSUME call \in [Calls -> CallRecord], NEW c \in Calls, NEW label \in At, Goto(c, label)
  PROVE  GoesTo(c, label, 0, call[c].ok)
<1>1. call' = [call EXCEPT ![c] = [call[c] EXCEPT !.at = label, !.left = 0, !.ok = call[c].ok]]
  BY DEF Goto, CallRecord
<1>2. 0 \in 0..PollTimeout /\ call[c].ok \in BOOLEAN
  BY DEF CallRecord
<1>3. QED
  BY <1>1, <1>2, Moves

\* So does the start of a poll, with its deadline.
LEMMA StartPollGoes ==
  ASSUME call \in [Calls -> CallRecord], NEW c \in Calls, NEW label \in At, StartPoll(c, label)
  PROVE  GoesTo(c, label, PollTimeout, call[c].ok)
<1>1. call' = [call EXCEPT ![c] = [call[c] EXCEPT !.at = label, !.left = PollTimeout,
                                                  !.ok = call[c].ok]]
  BY DEF StartPoll, CallRecord
<1>2. PollTimeout \in 0..PollTimeout /\ call[c].ok \in BOOLEAN
  BY DEF CallRecord
<1>3. QED
  BY <1>1, <1>2, Moves

\* An exception leaves the call, or goes through Carbon Black's finally.
LEMMA RaiseGoes ==
  ASSUME call \in [Calls -> CallRecord], NEW c \in Calls, Raise(c)
  PROVE  GoesTo(c, IF InFinally(c) THEN "close" ELSE "raised", 0, FALSE)
<1>1. CASE InFinally(c)
  <2>1. call' = [call EXCEPT ![c] = [call[c] EXCEPT !.at = "close", !.left = 0, !.ok = FALSE]]
    BY <1>1 DEF Raise, CallRecord
  <2>2. 0 \in 0..PollTimeout /\ "close" \in At
    BY DEF At
  <2>3. QED
    BY <1>1, <2>1, <2>2, Moves
<1>2. CASE ~InFinally(c)
  <2>1. call' = [call EXCEPT ![c] = [call[c] EXCEPT !.at = "raised", !.left = 0, !.ok = FALSE]]
    BY <1>2 DEF Raise, CallRecord
  <2>2. 0 \in 0..PollTimeout /\ "raised" \in At
    BY DEF At, Ended
  <2>3. QED
    BY <1>2, <2>1, <2>2, Moves
<1>3. QED
  BY <1>1, <1>2

\* Nothing else of the other calls changes.
OnlyMoves(c) ==
    /\ mode' = mode
    /\ \A d \in Calls \ {c} :
          /\ call'[d] = call[d] /\ sessions'[d] = sessions[d] /\ run'[d] = run[d]
          /\ objects'[d] = objects[d] /\ text'[d] = text[d] /\ faults'[d] = faults[d]

\* What holds of a call is not disturbed by the steps of another.
LEMMA OthersKeepInv ==
  ASSUME Inv, NEW c \in Calls, OnlyMoves(c), TypeInv', CallInv(c)'
  PROVE  Inv'
<1>1. ASSUME NEW d \in Calls \ {c} PROVE CallInv(d)'
  <2>1. /\ mode' = mode /\ call'[d] = call[d] /\ sessions'[d] = sessions[d]
        /\ run'[d] = run[d] /\ objects'[d] = objects[d] /\ text'[d] = text[d]
        /\ faults'[d] = faults[d] /\ CallInv(d)
    BY <1>1 DEF OnlyMoves, Inv
  <2>2. TextInv(d)'
    BY <2>1 DEF CallInv, TextInv
  <2>3. SessionInv(d)'
    BY <2>1 DEF CallInv, SessionInv
  <2>4. RunInv(d)'
    BY <2>1 DEF CallInv, RunInv, Read
  <2>5. QED
    BY <2>2, <2>3, <2>4 DEF CallInv
<1>2. QED
  BY <1>1 DEF Inv

\* A call's faults are added to.
FaultsGrow(c, f) ==
    /\ faults' \in [Calls -> SUBSET Fault]
    /\ faults'[c] = faults[c] \cup f
    /\ \A d \in Calls \ {c} : faults'[d] = faults[d]

\* A fault is noted.
LEMMA NoteGrows ==
  ASSUME TypeOK, NEW c \in Calls, NEW f \in SUBSET Fault, Note(c, f)
  PROVE  FaultsGrow(c, f)
  BY DEF TypeOK, Note, FaultsGrow, Fault

\* None is.
LEMMA NoFault ==
  ASSUME TypeOK, NEW c \in Calls, UNCHANGED faults
  PROVE  FaultsGrow(c, {})
  BY DEF TypeOK, FaultsGrow, Fault

\* A call's number of sessions changes.
SessionsMove(c, n) ==
    /\ n \in 0..Attempts[c]
    /\ sessions' = [d \in Calls |-> sessions'[d]]
    /\ sessions'[c] = n
    /\ \A d \in Calls \ {c} : sessions'[d] = sessions[d]

\* The number is set.
LEMMA SessionsSet ==
  ASSUME TypeInv, NEW c \in Calls, NEW n \in 0..Attempts[c], sessions' = [sessions EXCEPT ![c] = n]
  PROVE  SessionsMove(c, n)
  BY DEF TypeInv, SessionsMove

\* It is kept.
LEMMA SessionsKept ==
  ASSUME TypeInv, NEW c \in Calls, UNCHANGED sessions
  PROVE  SessionsMove(c, sessions[c])
  BY DEF TypeInv, TypeOK, SessionsMove

\* A step that touches neither the endpoint nor the bucket nor the text keeps
\* the invariant if it does not delete or return unless nothing was read, does
\* not read unless the execution has ended, and respects the sessions.
LEMMA CallOnly ==
  ASSUME Inv, NEW c \in Calls, NEW label, NEW left, NEW ok, NEW f, NEW n,
         GoesTo(c, label, left, ok), SessionsMove(c, n), FaultsGrow(c, f),
         UNCHANGED <<mode, run, storageVars>>, urlLeft' \in [Calls -> 0..UrlLife],
         label = "dead" \/ text[c] = NoText,
         label # "delete", label = "returned" => ~mode[c].live,
         label = "read" \/ (label = "close" /\ ok) => run[c][1] = "ended",
         SessionInv(c)'
  PROVE  Inv'
<1> USE DEF storageVars
<1>1. TypeInv'
  BY DEF Inv, TypeInv, TypeOK, GoesTo, CallRecord, SessionsMove, FaultsGrow, Fault, RunIds
<1>2. OnlyMoves(c)
  BY DEF OnlyMoves, GoesTo, SessionsMove, FaultsGrow
<1>3. TextInv(c) /\ RunInv(c)
  BY DEF Inv, CallInv
<1>4. /\ call'[c].at = label /\ call'[c].ok = ok
      /\ mode' = mode /\ objects' = objects /\ text' = text /\ run' = run
      /\ faults[c] \subseteq faults'[c]
  BY DEF GoesTo, FaultsGrow
<1>5. TextInv(c)'
  BY <1>3, <1>4 DEF TextInv, Own, Ended
<1>6. RunInv(c)'
  BY <1>3, <1>4 DEF RunInv, TextInv, Read, RunIds, Ended
<1>7. QED
  BY <1>1, <1>2, <1>5, <1>6, OthersKeepInv DEF CallInv

(***************************************************************************)
(* The actions.                                                            *)
(***************************************************************************)

\* What a call that takes a step has so far.
LEMMA Now ==
  ASSUME Inv, NEW c \in Calls
  PROVE  /\ call \in [Calls -> CallRecord] /\ TypeInv /\ TypeOK
         /\ TextInv(c) /\ SessionInv(c) /\ RunInv(c)
         /\ urlLeft \in [Calls -> 0..UrlLife] /\ mode[c] \in Mode
         /\ call[c].ok \in BOOLEAN
  BY DEF Inv, TypeInv, TypeOK, CallRecord, CallInv

\* Steps before the vendor's part is done, which may go on or raise.
LEMMA BeginKeepsInv ==
  ASSUME Inv, NEW c \in Calls,
         \/ RunFixture(c) \/ RefuseWithoutStorage(c) \/ PresignUrl(c) \/ DeployAndRun(c)
         \/ UploadScript(c)
  PROVE  Inv'
<1> DEFINE Labels == {"returned", "raised", "deploy", "upload", "open", "execute"}
<1>1. UNCHANGED <<mode, vendorVars, storageVars, faults>> /\ urlLeft' \in [Calls -> 0..UrlLife]
  BY Now DEF RunFixture, RefuseWithoutStorage, PresignUrl, DeployAndRun, UploadScript
<1>2. call[c].at \in {"idle", "deploy", "upload"}
  BY DEF RunFixture, RefuseWithoutStorage, PresignUrl, DeployAndRun, UploadScript, IsAt
<1>3. PICK label \in Labels, ok \in BOOLEAN :
          /\ GoesTo(c, label, 0, ok)
          /\ label = "returned" => ~mode[c].live
          /\ label = "upload" => mode[c].vendor = "sentinelone"
          /\ label = "open" => mode[c].vendor = "carbonblack"
          /\ label = "execute" => call[c].at = "upload"
  BY <1>2, Now, GotoGoes, RaiseGoes
     DEF RunFixture, RefuseWithoutStorage, PresignUrl, DeployAndRun, UploadScript, InFinally, IsAt, At, Ended
<1>4. FaultsGrow(c, {}) /\ SessionsMove(c, sessions[c])
  BY <1>1, Now, NoFault, SessionsKept DEF vendorVars
<1>5. text[c] = NoText /\ sessions[c] = 0
  BY <1>2, Now DEF TextInv, SessionInv, Ended, Before
<1>6. SessionInv(c)'
  <2>1. /\ mode' = mode /\ sessions' = sessions /\ faults' = faults /\ call'[c].at = label
    BY <1>1, <1>3 DEF vendorVars, GoesTo
  <2>2. label = "execute" => mode[c].vendor # "carbonblack"
    BY <1>3, Now DEF SessionInv
  <2>3. sessions'[c] = 0 /\ mode'[c] = mode[c]
    BY <1>5, <2>1
  <2>4. label \notin InSession \ {"execute"}
    BY DEF InSession
  <2>5. call'[c].at \in InSession => mode'[c].vendor # "carbonblack"
    BY <2>1, <2>2, <2>4, <2>3
  <2>6. call'[c].at = "upload" => mode'[c].vendor = "sentinelone"
    BY <1>3, <2>1, <2>3
  <2>7. call'[c].at \in {"open", "ready", "stage", "close"} => mode'[c].vendor = "carbonblack"
    BY <1>3, <2>1, <2>3
  <2>8. QED
    BY <2>3, <2>5, <2>6, <2>7 DEF SessionInv
<1>7. QED
  BY <1>1, <1>3, <1>4, <1>5, <1>6, CallOnly DEF vendorVars

\* Opening the session, however often it happens.
LEMMA OpenKeepsInv ==
  ASSUME Inv, NEW c \in Calls, OpenSession(c)
  PROVE  Inv'
<1>1. PICK n \in 0..Attempts[c] :
          /\ sessions' = [sessions EXCEPT ![c] = n]
          /\ \/ n > 0 /\ StartPoll(c, "ready") /\ Note(c, IF n > 1 THEN {"open repeated"} ELSE {})
             \/ Raise(c) /\ Note(c, {"open repeated"})
  BY DEF OpenSession
<1>2. /\ UNCHANGED <<mode, run, storageVars>> /\ urlLeft' \in [Calls -> 0..UrlLife]
      /\ call[c].at = "open"
  BY Now DEF OpenSession, IsAt
<1>3. SessionsMove(c, n)
  BY <1>1, Now, SessionsSet
<1>4. text[c] = NoText /\ mode[c].vendor = "carbonblack"
  BY <1>2, Now DEF TextInv, SessionInv, Ended
<1>5. CASE n > 0 /\ StartPoll(c, "ready") /\ Note(c, IF n > 1 THEN {"open repeated"} ELSE {})
  <2>1. GoesTo(c, "ready", PollTimeout, call[c].ok)
    BY <1>5, Now, StartPollGoes DEF At
  <2>2. FaultsGrow(c, IF n > 1 THEN {"open repeated"} ELSE {})
    <3>1. (IF n > 1 THEN {"open repeated"} ELSE {}) \in SUBSET Fault
      BY DEF Fault
    <3>2. QED
      BY <1>5, <3>1, Now, NoteGrows
  <2>3. /\ call'[c].at = "ready" /\ sessions'[c] = n /\ mode'[c].vendor = "carbonblack"
        /\ n > 1 => "open repeated" \in faults'[c]
    BY <1>2, <1>3, <1>4, <2>1, <2>2 DEF GoesTo, SessionsMove, FaultsGrow
  <2>4. SessionInv(c)'
    BY <1>5, <2>3 DEF SessionInv, Before, InSession
  <2>5. QED
    BY <1>2, <1>3, <1>4, <2>1, <2>2, <2>4, CallOnly
<1>6. CASE Raise(c) /\ Note(c, {"open repeated"})
  <2>1. GoesTo(c, "raised", 0, FALSE)
    BY <1>2, <1>6, Now, RaiseGoes DEF InFinally
  <2>2. FaultsGrow(c, {"open repeated"})
    BY <1>6, Now, NoteGrows DEF Fault
  <2>3. /\ call'[c].at = "raised" /\ mode'[c].vendor = "carbonblack"
        /\ "open repeated" \in faults'[c] /\ SessionFault(faults'[c])
    BY <1>2, <1>4, <2>1, <2>2 DEF GoesTo, FaultsGrow, SessionFault
  <2>4. SessionInv(c)'
    BY <2>3 DEF SessionInv, Before, InSession
  <2>5. QED
    BY <1>2, <1>3, <1>4, <2>1, <2>2, <2>4, CallOnly
<1>7. QED
  BY <1>1, <1>5, <1>6

\* Waiting for the session in vain, which is noted.
LEMMA NotReadyKeepsInv ==
  ASSUME Inv, NEW c \in Calls, call[c].at = "ready", Raise(c), Note(c, {"not ready"}),
         UNCHANGED <<mode, urlLeft, vendorVars, storageVars>>
  PROVE  Inv'
<1>1. GoesTo(c, "raised", 0, FALSE)
  BY Now, RaiseGoes DEF InFinally
<1>2. FaultsGrow(c, {"not ready"})
  BY Now, NoteGrows DEF Fault
<1>3. SessionsMove(c, sessions[c])
  BY Now, SessionsKept DEF vendorVars
<1>4. text[c] = NoText /\ mode[c].vendor = "carbonblack"
  BY Now DEF TextInv, SessionInv, Ended
<1>5. /\ call'[c].at = "raised" /\ mode'[c].vendor = "carbonblack" /\ sessions'[c] = sessions[c]
      /\ faults[c] \subseteq faults'[c] /\ SessionFault(faults'[c])
  BY <1>1, <1>2, <1>4 DEF GoesTo, FaultsGrow, SessionFault, vendorVars
<1>6. SessionInv(c)'
  <2>1. sessions'[c] > 1 => "open repeated" \in faults'[c]
    BY <1>5, Now DEF SessionInv
  <2>2. QED
    BY <1>5, <2>1 DEF SessionInv, Before, InSession
<1>7. QED
  BY <1>1, <1>2, <1>3, <1>4, <1>6, Now, CallOnly DEF vendorVars

\* Steps with a session, or without one at another vendor, that go to a later
\* label of it or raise.
LEMMA SessionKeepsInv ==
  ASSUME Inv, NEW c \in Calls,
         \/ SessionActive(c) \/ StageScript(c) \/ PollCompletes(c) \/ PollTimesOut(c)
         \/ call[c].at = "poll" /\ Raise(c)
            /\ UNCHANGED <<mode, urlLeft, vendorVars, storageVars, faults>>
  PROVE  Inv'
<1> DEFINE Labels == {"stage", "execute", "close", "read", "raised"}
<1>1. UNCHANGED <<mode, vendorVars, storageVars, faults>> /\ urlLeft' \in [Calls -> 0..UrlLife]
  BY Now DEF SessionActive, StageScript, PollCompletes, PollTimesOut
<1>2. call[c].at \in {"ready", "stage", "poll"}
  BY DEF SessionActive, StageScript, PollCompletes, PollTimesOut, IsAt
<1>3. /\ text[c] = NoText
      /\ mode[c].vendor # "carbonblack" => sessions[c] = 0
      /\ mode[c].vendor = "carbonblack" => sessions[c] > 0
      /\ call[c].at \in {"ready", "stage"} => mode[c].vendor = "carbonblack"
  BY <1>2, Now DEF TextInv, SessionInv, Ended, InSession
<1>4. PICK label \in Labels, ok \in BOOLEAN :
          /\ GoesTo(c, label, 0, ok)
          /\ label \in {"stage", "close"} => mode[c].vendor = "carbonblack"
          /\ label \in {"read", "raised"} => mode[c].vendor # "carbonblack"
          /\ label = "read" \/ (label = "close" /\ ok) => run[c][1] = "ended"
  BY <1>2, <1>3, Now, GotoGoes, RaiseGoes
     DEF SessionActive, StageScript, PollCompletes, PollTimesOut, InFinally, IsAt, At, Ended
<1>5. FaultsGrow(c, {}) /\ SessionsMove(c, sessions[c])
  BY <1>1, Now, NoFault, SessionsKept DEF vendorVars
<1>6. SessionInv(c)'
  <2>1. /\ mode' = mode /\ sessions' = sessions /\ faults' = faults /\ call'[c].at = label
    BY <1>1, <1>4 DEF vendorVars, GoesTo
  <2>2. call'[c].at # "upload" /\ call'[c].at \notin Before \cup {"upload"}
    BY <2>1 DEF Before
  <2>3. call'[c].at \in {"open", "ready", "stage", "close"} => mode'[c].vendor = "carbonblack"
    BY <1>4, <2>1
  <2>4. call'[c].at \in {"read", "delete", "returned", "raised"} => ~(sessions'[c] > 0)
    BY <1>3, <1>4, <2>1
  <2>5. sessions'[c] > 1 => "open repeated" \in faults'[c]
    BY <2>1, Now DEF SessionInv
  <2>6. /\ mode'[c].vendor # "carbonblack" => sessions'[c] = 0
        /\ mode'[c].vendor = "carbonblack" => sessions'[c] > 0
    BY <1>3, <2>1
  <2>7. QED
    BY <2>2, <2>3, <2>4, <2>5, <2>6 DEF SessionInv
<1>7. QED
  BY <1>1, <1>3, <1>4, <1>5, <1>6, CallOnly DEF vendorVars

\* Either poll's request fails.
LEMMA PollRaisesKeepsInv ==
  ASSUME Inv, NEW c \in Calls, PollRaises(c)
  PROVE  Inv'
<1>1. CASE call[c].at = "ready"
  BY <1>1, NotReadyKeepsInv DEF PollRaises, IsAt
<1>2. CASE call[c].at = "poll"
  <2>1. Note(c, {})
    BY <1>2 DEF PollRaises, IsAt
  <2>2. UNCHANGED faults
    BY <2>1, Now DEF Note, TypeOK
  <2>3. QED
    BY <1>2, <2>2, SessionKeepsInv DEF PollRaises
<1>3. QED
  BY <1>1, <1>2 DEF PollRaises

\* The session is closed, or the fault noted.
LEMMA CloseKeepsInv ==
  ASSUME Inv, NEW c \in Calls, CloseSession(c)
  PROVE  Inv'
<1>1. /\ UNCHANGED <<mode, run, storageVars>> /\ urlLeft' \in [Calls -> 0..UrlLife]
      /\ call[c].at = "close"
  BY Now DEF CloseSession, IsAt
<1>2. text[c] = NoText /\ mode[c].vendor = "carbonblack" /\ sessions[c] > 0
  BY <1>1, Now DEF TextInv, SessionInv, Ended, InSession
<1>3. PICK label \in {"read", "raised"} :
          GoesTo(c, label, 0, call[c].ok) /\ (label = "read" => call[c].ok)
  BY Now, GotoGoes DEF CloseSession, At, Ended
<1>4. label = "read" \/ (label = "close" /\ call[c].ok) => run[c][1] = "ended"
  BY <1>1, <1>3, Now DEF RunInv, Read
<1>5. call'[c].at = label /\ mode'[c].vendor = "carbonblack"
  BY <1>1, <1>2, <1>3 DEF GoesTo
<1>6. CASE sessions' = [sessions EXCEPT ![c] = @ - 1] /\ UNCHANGED faults
  <2> DEFINE m == sessions[c]
  <2>0. m \in Nat /\ Attempts[c] \in Nat /\ m <= Attempts[c] /\ m > 0
    <3>1. m \in 0..Attempts[c]
      BY Now DEF TypeOK
    <3>2. Attempts[c] \in Nat
      OBVIOUS
    <3>3. QED
      BY <1>2, <3>1, <3>2
  <2>1. m - 1 \in 0..Attempts[c]
    BY <2>0
  <2>2. SessionsMove(c, sessions[c] - 1)
    BY <1>6, <2>1, Now, SessionsSet
  <2>3. FaultsGrow(c, {})
    BY <1>6, Now, NoFault
  <2>4. /\ sessions'[c] = sessions[c] - 1 /\ faults'[c] = faults[c]
        /\ sessions[c] > 1 => "open repeated" \in faults[c]
    BY <1>6, <2>2, Now DEF SessionsMove, SessionInv
  <2>5. (m - 1 > 0 => m > 1) /\ (m - 1 > 1 => m > 1)
    BY <2>0
  <2>6. /\ sessions'[c] > 0 => SessionFault(faults'[c])
        /\ sessions'[c] > 1 => "open repeated" \in faults'[c]
    BY <2>4, <2>5 DEF SessionFault
  <2>7. SessionInv(c)'
    BY <1>3, <1>5, <2>6 DEF SessionInv, Before, InSession
  <2>8. QED
    BY <1>1, <1>2, <1>3, <1>4, <2>2, <2>3, <2>7, CallOnly
<1>7. CASE UNCHANGED sessions /\ Note(c, {"close failed"})
  <2>1. FaultsGrow(c, {"close failed"})
    BY <1>7, Now, NoteGrows DEF Fault
  <2>2. SessionsMove(c, sessions[c])
    BY <1>7, Now, SessionsKept
  <2>3. SessionFault(faults'[c]) /\ (sessions'[c] > 1 => "open repeated" \in faults'[c])
    BY <1>7, <2>1, Now DEF FaultsGrow, SessionFault, SessionInv
  <2>4. SessionInv(c)'
    BY <1>3, <1>5, <2>3 DEF SessionInv, Before, InSession
  <2>5. QED
    BY <1>1, <1>2, <1>3, <1>4, <2>1, <2>2, <2>4, CallOnly
<1>8. QED
  BY <1>6, <1>7 DEF CloseSession

\* The process is killed.
LEMMA KillKeepsInv ==
  ASSUME Inv, NEW c \in Calls, Kill(c)
  PROVE  Inv'
<1>1. UNCHANGED <<mode, vendorVars, storageVars, faults>> /\ urlLeft' \in [Calls -> 0..UrlLife]
  BY Now DEF Kill
<1>2. GoesTo(c, "dead", 0, call[c].ok)
  BY Now, GotoGoes DEF Kill, At, Ended
<1>3. FaultsGrow(c, {}) /\ SessionsMove(c, sessions[c])
  BY <1>1, Now, NoFault, SessionsKept DEF vendorVars
<1>4. /\ mode' = mode /\ sessions' = sessions /\ faults' = faults /\ call'[c].at = "dead"
  BY <1>1, <1>2 DEF GoesTo, vendorVars
<1>5. SessionInv(c)'
  BY <1>4, Now DEF SessionInv, Before, InSession
<1>6. QED
  BY <1>1, <1>2, <1>3, <1>5, CallOnly DEF vendorVars

\* The script starts, once, more often or not at all.
LEMMA ExecuteKeepsInv ==
  ASSUME Inv, NEW c \in Calls, ExecuteScript(c)
  PROVE  Inv'
<1>1. PICK n \in 0..Attempts[c] :
          /\ StartRuns(c, n)
          /\ Note(c, IF n > 1 THEN {"start repeated"} ELSE {})
          /\ \/ n > 0 /\ StartPoll(c, "poll")
             \/ Raise(c)
  BY DEF ExecuteScript
<1>2. UNCHANGED <<mode, urlLeft, sessions, storageVars>> /\ call[c].at = "execute"
  BY DEF ExecuteScript, IsAt
<1>3. PICK label \in {"poll", "close", "raised"}, left \in 0..PollTimeout, ok \in BOOLEAN :
          /\ GoesTo(c, label, left, ok)
          /\ label = "close" => ~ok /\ mode[c].vendor = "carbonblack"
          /\ label = "raised" => mode[c].vendor # "carbonblack"
  <2>1. CASE StartPoll(c, "poll")
    <3>1. GoesTo(c, "poll", PollTimeout, call[c].ok)
      BY <2>1, Now, StartPollGoes DEF At
    <3>2. PollTimeout \in 0..PollTimeout /\ call[c].ok \in BOOLEAN
      BY Now
    <3>3. QED
      BY <3>1, <3>2
  <2>2. CASE Raise(c)
    <3>1. GoesTo(c, IF mode[c].vendor = "carbonblack" THEN "close" ELSE "raised", 0, FALSE)
      BY <1>2, <2>2, Now, RaiseGoes DEF InFinally
    <3>2. 0 \in 0..PollTimeout
      OBVIOUS
    <3>3. QED
      BY <3>1, <3>2
  <2>3. QED
    BY <1>1, <2>1, <2>2
<1>4. /\ run' = [d \in Calls |-> run'[d]] /\ run'[c] \in [RunIds(c) -> RunState]
      /\ \A i \in RunIds(c) : run'[c][i] = IF i <= n THEN "running" ELSE run[c][i]
      /\ \A d \in Calls \ {c} : run'[d] = run[d]
  BY <1>1, Now DEF TypeInv, TypeOK, StartRuns, RunState
<1>5. FaultsGrow(c, IF n > 1 THEN {"start repeated"} ELSE {})
  <2>1. (IF n > 1 THEN {"start repeated"} ELSE {}) \in SUBSET Fault
    BY DEF Fault
  <2>2. QED
    BY <1>1, <2>1, Now, NoteGrows
<1>6. TypeInv'
  BY <1>2, <1>3, <1>4, <1>5
     DEF Inv, TypeInv, TypeOK, GoesTo, CallRecord, FaultsGrow, Fault, storageVars, RunIds
<1>7. OnlyMoves(c)
  BY <1>2, <1>3, <1>4, <1>5 DEF OnlyMoves, GoesTo, FaultsGrow, storageVars
<1>8. /\ mode' = mode /\ sessions' = sessions /\ objects' = objects /\ text' = text
      /\ call'[c].at = label /\ call'[c].ok = ok /\ faults[c] \subseteq faults'[c]
      /\ n > 1 => "start repeated" \in faults'[c]
  BY <1>2, <1>3, <1>5 DEF GoesTo, FaultsGrow, storageVars
<1>9. text[c] = NoText
  BY <1>2, Now DEF TextInv, Ended
<1>10. TextInv(c)'
  BY <1>8, <1>9, Now DEF TextInv, Own
<1>11. SessionInv(c)'
  <2>1. /\ mode[c].vendor # "carbonblack" => sessions[c] = 0
        /\ mode[c].vendor = "carbonblack" => sessions[c] > 0
        /\ sessions[c] > 1 => "open repeated" \in faults[c]
    BY <1>2, Now DEF SessionInv, InSession
  <2>2. /\ mode'[c] = mode[c] /\ sessions'[c] = sessions[c]
        /\ sessions[c] > 1 => "open repeated" \in faults'[c]
        /\ call'[c].at \in {"poll", "close", "raised"}
        /\ call'[c].at = "close" => mode[c].vendor = "carbonblack"
        /\ call'[c].at = "raised" => mode[c].vendor # "carbonblack"
    BY <1>3, <1>8, <2>1
  <2>3. call'[c].at # "upload" /\ call'[c].at \notin Before \cup {"upload"}
    BY <2>2 DEF Before
  <2>4. call'[c].at \in {"read", "delete", "returned", "raised"} => call'[c].at = "raised"
    BY <2>2
  <2>5. call'[c].at \in {"read", "delete", "returned", "raised"} => ~(sessions'[c] > 0)
    <3>1. call'[c].at = "raised" => sessions'[c] = 0
      BY <2>1, <2>2
    <3>2. QED
      BY <2>4, <3>1
  <2>6. call'[c].at \in {"open", "ready", "stage", "close"} => mode'[c].vendor = "carbonblack"
    BY <2>2
  <2>7. QED
    BY <2>1, <2>2, <2>3, <2>5, <2>6 DEF SessionInv
<1>12. RunInv(c)'
  <2>1. ~Read(c)'
    BY <1>3, <1>8, <1>9 DEF Read
  <2>2. ASSUME "start repeated" \notin faults'[c], NEW i \in RunIds(c), i > 1
        PROVE  run'[c][i] = "none"
    <3>1. run'[c][i] = IF i <= n THEN "running" ELSE run[c][i]
      BY <1>4, <2>2
    <3>2. ~(n > 1) /\ n \in Int /\ i \in Int /\ i > 1
      <4>1. Attempts[c] \in Nat
        OBVIOUS
      <4>2. ~(n > 1)
        BY <1>8, <2>2
      <4>3. n \in Int /\ i \in Int
        BY <4>1 DEF RunIds
      <4>4. QED
        BY <2>2, <4>2, <4>3
    <3>3. ~(i <= n)
      BY <3>2
    <3>4. run[c][i] = "none"
      BY <1>8, <2>2, Now DEF RunInv
    <3>5. QED
      BY <3>1, <3>3, <3>4
  <2>3. QED
    BY <1>8, <1>9, <2>1, <2>2 DEF RunInv, RunIds
<1>13. QED
  BY <1>6, <1>7, <1>10, <1>11, <1>12, OthersKeepInv DEF CallInv

\* The object is downloaded, or the call raises.
LEMMA GetKeepsInv ==
  ASSUME Inv, NEW c \in Calls, GetObject(c)
  PROVE  Inv'
<1>1. /\ UNCHANGED <<mode, urlLeft, vendorVars, objects, faults>> /\ call[c].at = "read"
  BY DEF GetObject, IsAt
<1>2. /\ text[c] = NoText /\ run[c][1] = "ended"
  BY <1>1, Now DEF TextInv, RunInv, Read, Ended
<1>3. CASE /\ objects[c] # NoText
           /\ text' = [text EXCEPT ![c] = objects[c]]
           /\ Goto(c, "delete")
  <2>1. GoesTo(c, "delete", 0, call[c].ok)
    BY <1>3, Now, GotoGoes DEF At
  <2>2. /\ text' \in [Calls -> Text \cup {NoText}] /\ text'[c] = objects[c]
        /\ \A d \in Calls \ {c} : text'[d] = text[d]
    BY <1>3, Now DEF TypeOK
  <2>3. TypeInv'
    BY <1>1, <2>1, <2>2 DEF Inv, TypeInv, TypeOK, GoesTo, CallRecord, vendorVars, RunIds
  <2>4. OnlyMoves(c)
    BY <1>1, <2>1, <2>2 DEF OnlyMoves, GoesTo, vendorVars
  <2>5. /\ call'[c].at = "delete" /\ mode' = mode /\ sessions' = sessions /\ faults' = faults
        /\ run' = run /\ objects' = objects /\ text'[c] = objects[c]
    BY <1>1, <2>1, <2>2 DEF GoesTo, vendorVars
  <2>6. TextInv(c)'
    BY <1>3, <2>5, Now DEF TextInv, Own
  <2>7. SessionInv(c)'
    BY <1>1, <2>5, Now DEF SessionInv, Before, InSession
  <2>8. RunInv(c)'
    BY <1>2, <2>5, Now DEF RunInv, Read, RunIds
  <2>9. QED
    BY <2>3, <2>4, <2>6, <2>7, <2>8, OthersKeepInv DEF CallInv
<1>4. CASE Raise(c) /\ UNCHANGED text
  <2>1. GoesTo(c, "raised", 0, FALSE)
    BY <1>1, <1>4, Now, RaiseGoes DEF InFinally
  <2>2. FaultsGrow(c, {}) /\ SessionsMove(c, sessions[c])
    BY <1>1, Now, NoFault, SessionsKept DEF vendorVars
  <2>3. /\ mode' = mode /\ sessions' = sessions /\ faults' = faults /\ call'[c].at = "raised"
    BY <1>1, <2>1 DEF GoesTo, vendorVars
  <2>4. SessionInv(c)'
    BY <1>1, <2>3, Now DEF SessionInv, Before, InSession
  <2>5. QED
    BY <1>1, <1>2, <1>4, <2>1, <2>2, <2>4, Now, CallOnly DEF vendorVars, storageVars
<1>5. QED
  BY <1>3, <1>4 DEF GetObject, ObjectKey

\* The object is deleted, or the fault noted; then the text is judged.
LEMMA DeleteKeepsInv ==
  ASSUME Inv, NEW c \in Calls, DeleteObject(c)
  PROVE  Inv'
<1>1. /\ UNCHANGED <<mode, urlLeft, vendorVars, text>> /\ call[c].at = "delete"
  BY DEF DeleteObject, IsAt
<1>2. PICK label \in {"returned", "raised"}, ok \in BOOLEAN :
          GoesTo(c, label, 0, ok) /\ (label = "returned" => text[c].csv)
  BY <1>1, Now, GotoGoes, RaiseGoes DEF DeleteObject, InFinally, At, Ended
<1>3. PICK f \in {{}, {"delete failed"}} :
          /\ FaultsGrow(c, f)
          /\ objects' \in [Calls -> Text \cup {NoText}]
          /\ objects'[c] \in {objects[c], NoText}
          /\ f = {} => objects'[c] = NoText
          /\ \A d \in Calls \ {c} : objects'[d] = objects[d]
  <2>1. CASE objects' = [objects EXCEPT ![c] = NoText] /\ UNCHANGED faults
    <3>1. FaultsGrow(c, {})
      BY <2>1, Now, NoFault
    <3>2. objects \in [Calls -> Text \cup {NoText}]
      BY Now DEF TypeOK
    <3>3. QED
      BY <2>1, <3>1, <3>2
  <2>2. CASE UNCHANGED objects /\ Note(c, {"delete failed"})
    <3>1. FaultsGrow(c, {"delete failed"})
      BY <2>2, Now, NoteGrows DEF Fault
    <3>2. objects \in [Calls -> Text \cup {NoText}]
      BY Now DEF TypeOK
    <3>3. QED
      BY <2>2, <3>1, <3>2
  <2>3. QED
    BY <2>1, <2>2 DEF DeleteObject, ObjectKey
<1>4. TypeInv'
  BY <1>1, <1>2, <1>3
     DEF Inv, TypeInv, TypeOK, GoesTo, CallRecord, FaultsGrow, Fault, vendorVars, RunIds
<1>5. OnlyMoves(c)
  BY <1>1, <1>2, <1>3 DEF OnlyMoves, GoesTo, FaultsGrow, vendorVars
<1>6. /\ call'[c].at = label /\ mode' = mode /\ sessions' = sessions /\ run' = run /\ text' = text
      /\ faults[c] \subseteq faults'[c]
  BY <1>1, <1>2, <1>3 DEF GoesTo, FaultsGrow, vendorVars
<1>7. TextInv(c)'
  BY <1>1, <1>2, <1>3, <1>6, Now DEF TextInv, Own, Ended
<1>8. SessionInv(c)'
  <2>1. sessions[c] > 0 => SessionFault(faults'[c])
    BY <1>1, <1>6, Now DEF SessionInv, SessionFault
  <2>2. /\ mode[c].vendor # "carbonblack" => sessions[c] = 0
        /\ sessions[c] > 1 => "open repeated" \in faults'[c]
    BY <1>6, Now DEF SessionInv
  <2>3. call'[c].at \in {"returned", "raised"}
    BY <1>6
  <2>4. QED
    BY <1>6, <2>1, <2>2, <2>3 DEF SessionInv, Before, InSession
<1>9. RunInv(c)'
  <2>1. objects'[c] # NoText => ObjectFault(faults'[c])
    BY <1>3 DEF FaultsGrow, ObjectFault
  <2>2. run[c][1] = "ended"
    BY <1>1, Now DEF RunInv, Read
  <2>3. QED
    BY <1>6, <2>1, <2>2, Now DEF RunInv, RunIds
<1>10. QED
  BY <1>4, <1>5, <1>7, <1>8, <1>9, OthersKeepInv DEF CallInv

(***************************************************************************)
(* The endpoint and time.                                                  *)
(***************************************************************************)

\* The executions after the first are others.
LEMMA AnotherRun == \A c \in Calls : \A i \in RunIds(c) : i > 1 <=> i # 1
<1>1. \A c \in Calls : Attempts[c] \in Nat
  OBVIOUS
<1>2. QED
  BY <1>1 DEF RunIds

\* An execution uploads: the first only while its call has not read, another
\* one only after a retried start.
LEMMA UploadKeepsInv ==
  ASSUME Inv, NEW c \in Calls, NEW i \in RunIds(c), RunUploads(c, i)
  PROVE  Inv'
<1>1. PICK csv \in BOOLEAN : objects' = [objects EXCEPT ![c] = [call |-> c, csv |-> csv]]
  BY DEF RunUploads, ObjectKey
<1>2. /\ UNCHANGED <<mode, call, urlLeft, sessions, text, faults>>
      /\ run[c][i] = "running" /\ run' = [run EXCEPT ![c][i] = "uploaded"]
  BY DEF RunUploads
<1>3. /\ objects' \in [Calls -> Text \cup {NoText}]
      /\ objects'[c] \in Own(c)
      /\ \A d \in Calls \ {c} : objects'[d] = objects[d]
  BY <1>1, Now DEF TypeOK, Text, Own
<1>4. /\ run' = [d \in Calls |-> run'[d]] /\ run'[c] \in [RunIds(c) -> RunState]
      /\ run'[c] = [run[c] EXCEPT ![i] = "uploaded"]
      /\ \A d \in Calls \ {c} : run'[d] = run[d]
  BY <1>2, Now DEF TypeInv, TypeOK, RunState
<1>5. TypeInv'
  BY <1>2, <1>3, <1>4 DEF Inv, TypeInv, TypeOK, RunIds
<1>6. OnlyMoves(c)
  BY <1>2, <1>3, <1>4 DEF OnlyMoves
<1>7. TextInv(c)'
  BY <1>2, <1>3, Now DEF TextInv, Own
<1>8. SessionInv(c)'
  BY <1>2, Now DEF SessionInv
<1>9. run[c] \in [RunIds(c) -> RunState] /\ 1 \in RunIds(c) /\ i \in Int
  <2>1. Attempts[c] \in Nat \ {0}
    OBVIOUS
  <2>2. 1 \in RunIds(c) /\ i \in Int
    BY <2>1 DEF RunIds
  <2>3. QED
    BY <2>2, Now DEF TypeOK
<1>10. RunInv(c)'
  <2>1. Read(c)' => i # 1 /\ run[c][1] = "ended"
    BY <1>2, Now DEF RunInv, Read
  <2>2. i # 1 => "start repeated" \in faults[c]
    <3>1. i # 1 => i > 1
      BY <1>9 DEF RunIds
    <3>2. QED
      BY <1>2, <3>1, Now DEF RunInv
  <2>3. Read(c)' => run'[c][1] = "ended"
    BY <1>4, <1>9, <2>1
  <2>4. ASSUME "start repeated" \notin faults'[c], NEW j \in RunIds(c), j > 1
        PROVE  run'[c][j] = "none"
    <3>1. i = 1 /\ j # i
      <4>1. "start repeated" \notin faults[c]
        BY <1>2, <2>4
      <4>2. j # 1
        BY <2>4, AnotherRun
      <4>3. QED
        BY <2>2, <4>1, <4>2
    <3>2. run'[c][j] = run[c][j]
      BY <1>4, <1>9, <2>4, <3>1
    <3>3. "start repeated" \notin faults[c]
      BY <1>2, <2>4
    <3>4. RunInv(c)
      BY Now
    <3>5. QED
      BY <2>4, <3>2, <3>3, <3>4 DEF RunInv
  <2>5. text'[c] # NoText => ObjectFault(faults'[c])
    <3>1. text'[c] # NoText => Read(c)'
      BY DEF Read
    <3>2. QED
      BY <1>2, <2>1, <2>2, <3>1 DEF ObjectFault
  <2>6. QED
    BY <2>3, <2>4, <2>5 DEF RunInv, RunIds
<1>11. QED
  BY <1>5, <1>6, <1>7, <1>8, <1>10, OthersKeepInv DEF CallInv

\* An execution that ended stays so.
LEMMA RunEndsKeepsInv ==
  ASSUME Inv, NEW c \in Calls, NEW i \in RunIds(c), RunEnds(c, i)
  PROVE  Inv'
<1>1. /\ UNCHANGED <<mode, call, urlLeft, sessions, objects, text, faults>>
      /\ run[c][i] # "none" /\ run' = [run EXCEPT ![c][i] = "ended"]
  BY DEF RunEnds, storageVars
<1>2. /\ run' = [d \in Calls |-> run'[d]] /\ run'[c] \in [RunIds(c) -> RunState]
      /\ run'[c] = [run[c] EXCEPT ![i] = "ended"]
      /\ \A d \in Calls \ {c} : run'[d] = run[d]
  BY <1>1, Now DEF TypeInv, TypeOK, RunState
<1>3. TypeInv'
  BY <1>1, <1>2 DEF Inv, TypeInv, TypeOK, RunIds
<1>4. OnlyMoves(c)
  BY <1>1, <1>2 DEF OnlyMoves
<1>5. TextInv(c)' /\ SessionInv(c)'
  BY <1>1, Now DEF TextInv, SessionInv, Own
<1>6. run[c] \in [RunIds(c) -> RunState]
  BY Now DEF TypeOK
<1>7. RunInv(c)'
  <2>1. Read(c)' => run'[c][1] = "ended"
    <3>1. Attempts[c] \in Nat \ {0}
      OBVIOUS
    <3>2. 1 \in RunIds(c)
      BY <3>1 DEF RunIds
    <3>3. Read(c)' => run[c][1] = "ended"
      BY <1>1, Now DEF RunInv, Read
    <3>4. QED
      BY <1>2, <1>6, <3>2, <3>3
  <2>2. ASSUME "start repeated" \notin faults'[c], NEW j \in RunIds(c), j > 1
        PROVE  run'[c][j] = "none"
    <3>1. run[c][j] = "none" /\ j # i
      BY <1>1, <2>2, Now DEF RunInv
    <3>2. QED
      BY <1>2, <1>6, <2>2, <3>1
  <2>3. QED
    BY <1>1, <2>1, <2>2, Now DEF RunInv, RunIds
<1>8. QED
  BY <1>3, <1>4, <1>5, <1>7, OthersKeepInv DEF CallInv

\* Time changes no label and no verdict.
LEMMA TickKeepsInv ==
  ASSUME Inv, Tick
  PROVE  Inv'
<1>1. UNCHANGED <<mode, vendorVars, storageVars, faults>>
  BY DEF Tick
<1>2. ASSUME NEW n \in Nat, NEW m \in 0..n PROVE Down(m) \in 0..n
  BY DEF Down
<1>3. \A c \in Calls : /\ call[c] \in CallRecord /\ Down(call[c].left) \in 0..PollTimeout
                       /\ Down(urlLeft[c]) \in 0..UrlLife
  BY <1>2, Now DEF CallRecord
<1>4. call' = [c \in Calls |-> [call[c] EXCEPT !.left = Down(@)]]
  BY DEF Tick
<1>5. call' \in [Calls -> CallRecord]
  BY <1>3, <1>4 DEF CallRecord
<1>6. urlLeft' \in [Calls -> 0..UrlLife]
  BY <1>3 DEF Tick
<1>7. TypeInv'
  BY <1>1, <1>5, <1>6 DEF Inv, TypeInv, TypeOK, CallRecord, vendorVars, storageVars, RunIds
<1>8. ASSUME NEW c \in Calls PROVE CallInv(c)'
  <2>1. call'[c].at = call[c].at /\ call'[c].ok = call[c].ok
    BY <1>3, <1>4 DEF CallRecord
  <2>2. TextInv(c)'
    BY <1>1, <2>1, Now DEF TextInv, Own, storageVars
  <2>3. SessionInv(c)'
    BY <1>1, <2>1, Now DEF SessionInv, vendorVars
  <2>4. RunInv(c)'
    BY <1>1, <2>1, Now DEF RunInv, Read, RunIds, vendorVars, storageVars
  <2>5. QED
    BY <2>2, <2>3, <2>4 DEF CallInv
<1>9. QED
  BY <1>7, <1>8 DEF Inv

(***************************************************************************)
(* The theorems.                                                           *)
(***************************************************************************)

\* The initial states satisfy the invariant.
LEMMA InvInit == Init => Inv
<1> SUFFICES ASSUME Init PROVE Inv
  OBVIOUS
<1>1. TypeInv
  <2>1. \A c \in Calls : Attempts[c] \in Nat
    OBVIOUS
  <2>2. 0 \in 0..PollTimeout /\ 0 \in 0..UrlLife /\ \A c \in Calls : 0 \in 0..Attempts[c]
    BY <2>1
  <2>3. QED
    BY <2>2 DEF Init, TypeInv, TypeOK, At, RunState
<1>2. ASSUME NEW c \in Calls PROVE CallInv(c)
  <2>1. /\ call[c].at = "idle" /\ sessions[c] = 0 /\ objects[c] = NoText /\ text[c] = NoText
        /\ run[c] = [i \in RunIds(c) |-> "none"]
    BY DEF Init
  <2>2. QED
    BY <2>1 DEF CallInv, TextInv, SessionInv, RunInv, Read, Before, InSession, Ended
<1>3. QED
  BY <1>1, <1>2 DEF Inv

\* Every step keeps it.
LEMMA InvStep == Inv /\ [Next]_vars => Inv'
<1> SUFFICES ASSUME Inv, [Next]_vars PROVE Inv'
  OBVIOUS
<1>1. CASE \E c \in Calls : Step(c) \/ SessionActive(c) \/ PollRaises(c) \/ Kill(c)
  <2> PICK c \in Calls : Step(c) \/ SessionActive(c) \/ PollRaises(c) \/ Kill(c)
    BY <1>1
  <2>1. CASE \/ RunFixture(c) \/ RefuseWithoutStorage(c) \/ PresignUrl(c) \/ DeployAndRun(c)
             \/ UploadScript(c)
    BY <2>1, BeginKeepsInv
  <2>2. CASE OpenSession(c)
    BY <2>2, OpenKeepsInv
  <2>3. CASE ReadyTimesOut(c)
    BY <2>3, NotReadyKeepsInv DEF ReadyTimesOut, IsAt
  <2>4. CASE SessionActive(c) \/ StageScript(c) \/ PollCompletes(c) \/ PollTimesOut(c)
    BY <2>4, SessionKeepsInv
  <2>5. CASE PollRaises(c)
    BY <2>5, PollRaisesKeepsInv
  <2>6. CASE ExecuteScript(c)
    BY <2>6, ExecuteKeepsInv
  <2>7. CASE CloseSession(c)
    BY <2>7, CloseKeepsInv
  <2>8. CASE GetObject(c)
    BY <2>8, GetKeepsInv
  <2>9. CASE DeleteObject(c)
    BY <2>9, DeleteKeepsInv
  <2>10. CASE Kill(c)
    BY <2>10, KillKeepsInv
  <2>11. QED
    BY <2>1, <2>2, <2>3, <2>4, <2>5, <2>6, <2>7, <2>8, <2>9, <2>10 DEF Step
<1>2. CASE \E c \in Calls : \E i \in RunIds(c) : RunUploads(c, i) \/ RunEnds(c, i)
  BY <1>2, UploadKeepsInv, RunEndsKeepsInv
<1>3. CASE Tick
  BY <1>3, TickKeepsInv
<1>4. CASE UNCHANGED vars
  <2>1. TypeInv'
    BY <1>4 DEF vars, Inv, TypeInv, TypeOK, RunIds
  <2>2. ASSUME NEW c \in Calls PROVE CallInv(c)'
    BY <1>4, Now DEF vars, CallInv, TextInv, SessionInv, RunInv, Read, RunIds
  <2>3. QED
    BY <2>1, <2>2 DEF Inv
<1>5. QED
  BY <1>1, <1>2, <1>3, <1>4 DEF Next

\* In every reachable state.
LEMMA Invariance == Spec => []Inv
  BY InvInit, InvStep, PTL DEF Spec

\* Every reachable state is well typed: no call has more sessions at the vendor
\* than its POST can have happened times.
THEOREM TypeCorrect == Spec => []TypeOK
<1>1. Inv => TypeOK
  BY DEF Inv, TypeInv
<1>2. QED
  BY Invariance, <1>1, PTL

\* A live call returns a CSV its own script uploaded (run_script_export).
THEOREM TextIsOwn == Spec => []OwnUpload
<1>1. Inv => OwnUpload
  <2> SUFFICES ASSUME Inv, NEW c \in Calls, IsAt(c, "returned"), mode[c].live
               PROVE  text[c] = [call |-> c, csv |-> TRUE]
    BY DEF OwnUpload
  <2>1. text[c] \in Own(c) /\ text[c].csv
    BY Now DEF TextInv, IsAt
  <2>2. QED
    BY <2>1 DEF Own
<1>2. QED
  BY Invariance, <1>1, PTL

\* A call that ended has left a session open only after one of three faults.
THEOREM SessionsAreClosed == Spec => []SessionLeftOnlyAfterFault
<1>1. Inv => SessionLeftOnlyAfterFault
  BY DEF Inv, CallInv, SessionInv, SessionFault, SessionLeftOnlyAfterFault
<1>2. QED
  BY Invariance, <1>1, PTL

\* A call that read its object and ended has left one only after one of two.
THEOREM ObjectsAreDeleted == Spec => []ObjectLeftOnlyAfterFault
<1>1. Inv => ObjectLeftOnlyAfterFault
  BY DEF Inv, CallInv, RunInv, ObjectFault, ObjectLeftOnlyAfterFault, ObjectKey
<1>2. QED
  BY Invariance, <1>1, PTL
(***************************************************************************)
(* How long a call can be.  Order counts the labels a call may still go     *)
(* through; a poll's deadline runs down while it stays at one.             *)
(***************************************************************************)
Order(at) ==
    CASE at = "idle" -> 10 [] at = "deploy" -> 9 [] at \in {"upload", "open"} -> 8
      [] at = "ready" -> 7 [] at = "stage" -> 6 [] at = "execute" -> 5 [] at = "poll" -> 4
      [] at = "close" -> 3 [] at = "read" -> 2 [] at = "delete" -> 1 [] OTHER -> 0

CallStep(c) == Step(c) \/ SessionActive(c) \/ PollRaises(c) \/ Kill(c)

\* Each value of the order.
LEMMA Orders ==
  /\ Order("idle") = 10 /\ Order("deploy") = 9 /\ Order("upload") = 8 /\ Order("open") = 8
  /\ Order("ready") = 7 /\ Order("stage") = 6 /\ Order("execute") = 5 /\ Order("poll") = 4
  /\ Order("close") = 3 /\ Order("read") = 2 /\ Order("delete") = 1 /\ Order("returned") = 0
  /\ Order("raised") = 0 /\ Order("dead") = 0
  BY DEF Order

LEMMA OrderIsBounded ==
  ASSUME NEW at \in At
  PROVE  Order(at) \in 0..10 /\ (at \notin Ended => Order(at) > 0)
  BY Orders DEF At, Ended

\* A call's next label comes later; no other call moves.
Further(c) ==
    /\ Order(call'[c].at) < Order(call[c].at)
    /\ \A d \in Calls \ {c} : call'[d] = call[d]

LEMMA GoesFurther ==
  ASSUME Inv, NEW c \in Calls, CallStep(c)
  PROVE  Further(c)
<1>1. \A label \in At : Goto(c, label) => call'[c].at = label /\ \A d \in Calls \ {c} : call'[d] = call[d]
  BY Now, GotoGoes DEF GoesTo
<1>2. \A label \in At : StartPoll(c, label) =>
          call'[c].at = label /\ \A d \in Calls \ {c} : call'[d] = call[d]
  BY Now, StartPollGoes DEF GoesTo
<1>3. Raise(c) => /\ call'[c].at = IF InFinally(c) THEN "close" ELSE "raised"
                  /\ \A d \in Calls \ {c} : call'[d] = call[d]
  BY Now, RaiseGoes DEF GoesTo
<1>4. Raise(c) /\ call[c].at \notin Ended => Further(c)
  <2> SUFFICES ASSUME Raise(c), call[c].at \notin Ended
               PROVE  Further(c)
    OBVIOUS
  <2>1. call[c].at \in At
    BY Now DEF CallRecord
  <2>2. CASE InFinally(c)
    BY <1>3, <2>2, Orders DEF Further, InFinally
  <2>3. CASE ~InFinally(c)
    <3>1. Order("raised") = 0 /\ Order(call[c].at) > 0
      BY <2>1, OrderIsBounded, Orders
    <3> QED
      BY <1>3, <2>3, <3>1 DEF Further
  <2> QED
    BY <2>2, <2>3
<1> DEFINE Going(label) == Goto(c, label) \/ StartPoll(c, label)
<1>5. ASSUME NEW label \in At, Going(label), Order(label) < Order(call[c].at)
      PROVE  Further(c)
  BY <1>1, <1>2, <1>5 DEF Further
<1>6. CASE RunFixture(c) \/ RefuseWithoutStorage(c) \/ PresignUrl(c)
  <2>1. call[c].at = "idle" /\ (Raise(c) \/ Going("returned") \/ Going("deploy"))
    BY <1>6 DEF RunFixture, RefuseWithoutStorage, PresignUrl, IsAt
  <2> QED
    BY <2>1, <1>4, <1>5, Orders DEF At, Ended
<1>7. CASE DeployAndRun(c) \/ UploadScript(c)
  <2>1. \/ call[c].at = "deploy" /\ (Raise(c) \/ Going("upload") \/ Going("open"))
        \/ call[c].at = "upload" /\ (Raise(c) \/ Going("execute"))
    BY <1>7 DEF DeployAndRun, UploadScript, IsAt
  <2> QED
    BY <2>1, <1>4, <1>5, Orders DEF At, Ended
<1>8. CASE OpenSession(c) \/ SessionActive(c) \/ ReadyTimesOut(c) \/ StageScript(c)
  <2>1. \/ call[c].at = "open" /\ (Raise(c) \/ Going("ready"))
        \/ call[c].at = "ready" /\ (Raise(c) \/ Going("stage"))
        \/ call[c].at = "stage" /\ (Raise(c) \/ Going("execute"))
    BY <1>8 DEF OpenSession, SessionActive, ReadyTimesOut, StageScript, IsAt
  <2> QED
    BY <2>1, <1>4, <1>5, Orders DEF At, Ended
<1>9. CASE ExecuteScript(c) \/ PollCompletes(c) \/ PollTimesOut(c) \/ PollRaises(c)
  <2>1. \/ call[c].at = "execute" /\ (Raise(c) \/ Going("poll"))
        \/ call[c].at = "poll" /\ (Raise(c) \/ Going("close") \/ Going("read"))
        \/ call[c].at = "ready" /\ Raise(c)
    BY <1>9 DEF ExecuteScript, PollCompletes, PollTimesOut, PollRaises, IsAt
  <2> QED
    BY <2>1, <1>4, <1>5, Orders DEF At, Ended
<1>10. CASE CloseSession(c) \/ GetObject(c) \/ DeleteObject(c)
  <2>1. \/ call[c].at = "close" /\ (Going("read") \/ Going("raised"))
        \/ call[c].at = "read" /\ (Raise(c) \/ Going("delete"))
        \/ call[c].at = "delete" /\ (Raise(c) \/ Going("returned"))
    BY <1>10 DEF CloseSession, GetObject, DeleteObject, IsAt
  <2> QED
    BY <2>1, <1>4, <1>5, Orders DEF At, Ended
<1>11. CASE Kill(c)
  <2>1. Going("dead") /\ call[c].at \notin Ended /\ call[c].at \in At
    BY <1>11, Now DEF Kill, CallRecord
  <2>2. Order("dead") = 0 /\ Order(call[c].at) > 0
    BY <2>1, OrderIsBounded, Orders
  <2> QED
    BY <2>1, <2>2, <1>5 DEF At, Ended
<1>12. QED
  BY <1>6, <1>7, <1>8, <1>9, <1>10, <1>11 DEF CallStep, Step

\* No call is long: it goes through ten labels at most and comes back to none, waits at
\* most PollTimeout at the two of them that poll, and nothing that the endpoint, the
\* vendor or another call does takes it back or gives it more time.  (What is left of
\* CallsEnd is that its steps are taken and that time passes.)
CallsWindDown ==
    \A c \in Calls :
        /\ Order(call[c].at) \in 0..10 /\ call[c].left \in 0..PollTimeout
        /\ CallStep(c) => Order(call'[c].at) < Order(call[c].at)
        /\ \/ CallStep(c)
           \/ call'[c] = call[c]
           \/ /\ call'[c].at = call[c].at /\ call'[c].left < call[c].left
        /\ Tick /\ call[c].left > 0 => call'[c].left < call[c].left

\* For any number of calls and any retries of their requests (run_script_export).
THEOREM CallsAreBounded == Spec => [][CallsWindDown]_vars
<1>1. Inv /\ [Next]_vars => CallsWindDown
  <2> SUFFICES ASSUME Inv, [Next]_vars, NEW c \in Calls
               PROVE  /\ Order(call[c].at) \in 0..10 /\ call[c].left \in 0..PollTimeout
                      /\ CallStep(c) => Order(call'[c].at) < Order(call[c].at)
                      /\ \/ CallStep(c)
                         \/ call'[c] = call[c]
                         \/ /\ call'[c].at = call[c].at /\ call'[c].left < call[c].left
                      /\ Tick /\ call[c].left > 0 => call'[c].left < call[c].left
    BY DEF CallsWindDown
  <2>1. call[c] \in CallRecord /\ call[c].at \in At /\ call[c].left \in 0..PollTimeout
        /\ Order(call[c].at) \in 0..10
    BY Now, OrderIsBounded DEF CallRecord
  <2>2. CallStep(c) => Order(call'[c].at) < Order(call[c].at)
    BY GoesFurther DEF Further
  <2>3. ASSUME Tick
        PROVE  /\ call'[c].at = call[c].at /\ call'[c].left = Down(call[c].left)
               /\ call[c].left = 0 => call'[c] = call[c]
               /\ call[c].left > 0 => call'[c].left < call[c].left
    <3>1. call'[c] = [call[c] EXCEPT !.left = Down(@)]
      BY <2>3 DEF Tick
    <3>2. call'[c].at = call[c].at /\ call'[c].left = Down(call[c].left)
      BY <3>1, <2>1 DEF CallRecord
    <3>3. call[c].left = 0 => call'[c] = call[c]
      BY <3>1, <2>1 DEF CallRecord, Down
    <3>4. call[c].left > 0 => Down(call[c].left) < call[c].left
      BY <2>1 DEF Down
    <3> QED
      BY <3>2, <3>3, <3>4
  <2>4. \/ CallStep(c) \/ call'[c] = call[c]
        \/ /\ call'[c].at = call[c].at /\ call'[c].left < call[c].left
    <3>1. ASSUME NEW d \in Calls, CallStep(d)
          PROVE  CallStep(c) \/ call'[c] = call[c]
      BY <3>1, GoesFurther DEF Further
    <3>2. ASSUME NEW d \in Calls, NEW i \in RunIds(d), RunUploads(d, i) \/ RunEnds(d, i)
          PROVE  call' = call
      BY <3>2 DEF RunUploads, RunEnds
    <3>3. CASE Tick
      <4>1. call[c].left = 0 \/ call[c].left > 0
        BY <2>1
      <4> QED
        BY <3>3, <4>1, <2>3
    <3>4. CASE UNCHANGED vars
      BY <3>4 DEF vars
    <3> QED
      BY <3>1, <3>2, <3>3, <3>4 DEF Next, CallStep
  <2> QED
    BY <2>1, <2>2, <2>3, <2>4
<1>2. QED
  BY <1>1, Invariance, PTL DEF Spec
=============================================================================
