--------------------------- MODULE ScriptExport ---------------------------
(***************************************************************************)
(* Remote execution of the AD export script: run_script_export             *)
(* (script_runner.py), the two vendors' mechanics (SentinelOne's script    *)
(* orchestration, Carbon Black's Live Response), the polling and the HTTP  *)
(* retries below them, the object storage, and the script on the endpoint, *)
(* which goes on whatever becomes of the call that started it.             *)
(*                                                                         *)
(* Time is two countdowns of a call: what is left of the poll deadline, and *)
(* of the upload URL's life.  A POST the adapter retries may have happened *)
(* at the vendor more than once, or have happened although the call sees   *)
(* it fail.                                                                *)
(***************************************************************************)
EXTENDS Integers, FiniteSets

CONSTANTS
    Calls,          \* calls of run_script_export
    PollTimeout,    \* VendorConnector.poll_timeout
    UrlLife,        \* presigned_put_url's expires_in
    ModesOf,        \* the connectors a call may be given
    Attempts,       \* bound: times one POST of a call can happen at the vendor
    NoText          \* nothing was read

ASSUME TimesAssumption ==
    /\ PollTimeout \in Nat \ {0} /\ UrlLife \in Nat \ {0}
    /\ Attempts \in [Calls -> Nat \ {0}]

VARIABLES
    mode,       \* a call's connector: its vendor, is_live, storage or None
    call,       \* where the call is; what is left of its poll; no error so far
    urlLeft,    \* what is left of the life of its upload URL
    sessions,   \* Live Response sessions the vendor holds open for it
    run,        \* the executions of its script on the endpoint; the call has the
                \* id of the first
    objects,    \* the bucket
    text,       \* what the call downloaded
    faults      \* history: what went wrong around the call

vars == <<mode, call, urlLeft, sessions, run, objects, text, faults>>

-----------------------------------------------------------------------------
Vendor == {"sentinelone", "carbonblack", "bitdefender"}
Mode == [vendor : Vendor, live : BOOLEAN, storage : BOOLEAN]
Ended == {"returned", "raised", "dead"}
At == {"idle", "deploy", "upload", "open", "ready", "stage", "execute", "poll",
       "close", "read", "delete"} \cup Ended
RunIds(c) == 1..Attempts[c]
RunState == {"none", "running", "uploaded", "ended"}

\* An upload: whose, and whether it begins with the CSV's header (a script that
\* finds no computers uploads an empty body).
Text == [call : Calls, csv : BOOLEAN]

\* Variants: exports share one object, and a deadline that waits for a running
\* script (see "Variants" below).
SharedKey(c) == CHOOSE d \in Calls : TRUE
TimedOutUnlessRunning(c) ==
    call[c].left = 0 /\ run[c][1] # "running"

\* Keys are random (uuid4).
ObjectKey(c) == c

TypeOK ==
    /\ mode \in [Calls -> Mode]
    /\ call \in [Calls -> [at : At, left : 0..PollTimeout, ok : BOOLEAN]]
    /\ urlLeft \in [Calls -> 0..UrlLife]
    /\ \A c \in Calls : sessions[c] \in 0..Attempts[c]
    /\ \A c \in Calls : run[c] \in [RunIds(c) -> RunState]
    /\ objects \in [Calls -> Text \cup {NoText}]
    /\ text \in [Calls -> Text \cup {NoText}]
    /\ faults \in [Calls -> SUBSET {"open repeated", "not ready", "close failed",
                                    "start repeated", "delete failed"}]

Init ==
    /\ mode \in [Calls -> Mode] /\ \A c \in Calls : mode[c] \in ModesOf[c]
    /\ call = [c \in Calls |-> [at |-> "idle", left |-> 0, ok |-> TRUE]]
    /\ urlLeft = [c \in Calls |-> 0]
    /\ sessions = [c \in Calls |-> 0]
    /\ run = [c \in Calls |-> [i \in RunIds(c) |-> "none"]]
    /\ objects = [c \in Calls |-> NoText]
    /\ text = [c \in Calls |-> NoText]
    /\ faults = [c \in Calls |-> {}]

-----------------------------------------------------------------------------
\* Helpers.

IsAt(c, label) == call[c].at = label
Goto(c, label) == call' = [call EXCEPT ![c].at = label, ![c].left = 0]

\* _poll_until begins.
StartPoll(c, label) == call' = [call EXCEPT ![c].at = label, ![c].left = PollTimeout]
Polling(c) == call[c].left > 0
TimedOut(c) == call[c].left = 0

\* An exception: Carbon Black's goes through the finally once the session is
\* ready; everything else leaves run_script_export.
InFinally(c) == mode[c].vendor = "carbonblack" /\ call[c].at \in {"stage", "execute", "poll"}
Raise(c) ==
    call' = [call EXCEPT ![c].at = IF InFinally(c) THEN "close" ELSE "raised",
                            ![c].left = 0, ![c].ok = FALSE]

Note(c, fault) == faults' = [faults EXCEPT ![c] = @ \cup fault]

\* `n` executions of the script begin.
StartRuns(c, n) == run' = [run EXCEPT ![c] = [i \in RunIds(c) |-> IF i <= n THEN "running" ELSE @[i]]]

storageVars == <<objects, text>>
vendorVars == <<sessions, run>>

-----------------------------------------------------------------------------
\* run_script_export up to the vendor's part.

\* A connector without credentials: canned output, no storage.
RunFixture(c) ==
    /\ IsAt(c, "idle")
    /\ ~mode[c].live
    /\ \/ mode[c].vendor # "bitdefender" /\ Goto(c, "returned")
       \/ Raise(c)
    /\ UNCHANGED <<mode, urlLeft, vendorVars, storageVars, faults>>

RefuseWithoutStorage(c) ==
    /\ IsAt(c, "idle")
    /\ mode[c].live /\ ~mode[c].storage
    /\ Raise(c)
    /\ UNCHANGED <<mode, urlLeft, vendorVars, storageVars, faults>>

PresignUrl(c) ==
    /\ IsAt(c, "idle")
    /\ mode[c].live /\ mode[c].storage
    /\ \/ /\ Goto(c, "deploy")
          /\ urlLeft' = [urlLeft EXCEPT ![c] = UrlLife]
       \/ Raise(c) /\ UNCHANGED urlLeft
    /\ UNCHANGED <<mode, vendorVars, storageVars, faults>>

DeployAndRun(c) ==
    /\ IsAt(c, "deploy")
    /\ \/ mode[c].vendor = "sentinelone" /\ Goto(c, "upload")
       \/ mode[c].vendor = "carbonblack" /\ Goto(c, "open")
       \/ mode[c].vendor = "bitdefender" /\ Raise(c)
    /\ UNCHANGED <<mode, urlLeft, vendorVars, storageVars, faults>>

-----------------------------------------------------------------------------
\* The vendors' mechanics.

UploadScript(c) ==
    /\ IsAt(c, "upload")
    /\ Goto(c, "execute") \/ Raise(c)
    /\ UNCHANGED <<mode, urlLeft, vendorVars, storageVars, faults>>

\* Variant: one attempt more than the adapter's retries allow.
OpenSessionOnceMore(c) ==
    /\ IsAt(c, "open")
    /\ \E n \in 1..(Attempts[c] + 1) :
        /\ sessions' = [sessions EXCEPT ![c] = n]
        /\ StartPoll(c, "ready")
        /\ Note(c, {"open repeated"})
    /\ UNCHANGED <<mode, urlLeft, run, storageVars>>

OpenSession(c) ==
    /\ IsAt(c, "open")
    /\ \E n \in 0..Attempts[c] :
        /\ sessions' = [sessions EXCEPT ![c] = n]
        /\ \/ n > 0 /\ StartPoll(c, "ready") /\ Note(c, IF n > 1 THEN {"open repeated"} ELSE {})
           \/ Raise(c) /\ Note(c, {"open repeated"})
    /\ UNCHANGED <<mode, urlLeft, run, storageVars>>

SessionActive(c) ==
    /\ IsAt(c, "ready")
    /\ Polling(c)
    /\ Goto(c, "stage")
    /\ UNCHANGED <<mode, urlLeft, vendorVars, storageVars, faults>>

\* The session is not ready at the deadline.
ReadyTimesOut(c) ==
    /\ IsAt(c, "ready")
    /\ TimedOut(c)
    /\ Raise(c)
    /\ Note(c, {"not ready"})
    /\ UNCHANGED <<mode, urlLeft, vendorVars, storageVars>>

\* The file is uploaded to the session and put on the endpoint.
StageScript(c) ==
    /\ IsAt(c, "stage")
    /\ Goto(c, "execute") \/ Raise(c)
    /\ UNCHANGED <<mode, urlLeft, vendorVars, storageVars, faults>>

\* "remote-scripts/execute", or the session's "create process".
ExecuteScript(c) ==
    /\ IsAt(c, "execute")
    /\ \E n \in 0..Attempts[c] :
        /\ StartRuns(c, n)
        /\ Note(c, IF n > 1 THEN {"start repeated"} ELSE {})
        /\ \/ n > 0 /\ StartPoll(c, "poll")
           \/ Raise(c)
    /\ UNCHANGED <<mode, urlLeft, sessions, storageVars>>

\* The script is reported complete and its output fetched.
PollCompletes(c) ==
    /\ IsAt(c, "poll")
    /\ Polling(c)
    /\ run[c][1] = "ended"
    /\ Goto(c, IF mode[c].vendor = "carbonblack" THEN "close" ELSE "read")
    /\ UNCHANGED <<mode, urlLeft, vendorVars, storageVars, faults>>

\* A request of either poll fails for good, or the script is reported failed
\* (canceled, expired).
PollRaises(c) ==
    /\ call[c].at \in {"ready", "poll"}
    /\ Polling(c)
    /\ Raise(c)
    /\ Note(c, IF IsAt(c, "ready") THEN {"not ready"} ELSE {})
    /\ UNCHANGED <<mode, urlLeft, vendorVars, storageVars>>

PollTimesOut(c) ==
    /\ IsAt(c, "poll")
    /\ TimedOut(c)
    /\ Raise(c)
    /\ UNCHANGED <<mode, urlLeft, vendorVars, storageVars, faults>>

\* Variants: steps as a plausible mistake would have written them.  No
\* specification uses them; putting one in the place of the step it varies
\* shows which property notices.

\* No finally: the session is closed after a success only.
CloseAfterSuccess(c) ==
    /\ IsAt(c, "close")
    /\ sessions' = [sessions EXCEPT ![c] = IF call[c].ok THEN @ - 1 ELSE @]
    /\ Goto(c, IF call[c].ok THEN "read" ELSE "raised")
    /\ UNCHANGED <<mode, urlLeft, run, storageVars, faults>>

\* The output is judged before the object is deleted.
ValidateThenDelete(c) ==
    /\ IsAt(c, "delete")
    /\ IF text[c].csv
       THEN objects' = [objects EXCEPT ![ObjectKey(c)] = NoText] /\ Goto(c, "returned")
       ELSE Raise(c) /\ UNCHANGED objects
    /\ UNCHANGED <<mode, urlLeft, vendorVars, text, faults>>

\* finally: the session is closed; a ConnectorError of the DELETE is dropped.
CloseSession(c) ==
    /\ IsAt(c, "close")
    /\ \/ sessions' = [sessions EXCEPT ![c] = @ - 1] /\ UNCHANGED faults
       \/ UNCHANGED sessions /\ Note(c, {"close failed"})
    /\ Goto(c, IF call[c].ok THEN "read" ELSE "raised")
    /\ UNCHANGED <<mode, urlLeft, run, storageVars>>

-----------------------------------------------------------------------------
\* run_script_export after the vendor's part.

\* What is not UTF-8 raises like a request that fails: nothing was read, and
\* the object stays.
GetObject(c) ==
    /\ IsAt(c, "read")
    /\ \/ /\ objects[ObjectKey(c)] # NoText
          /\ text' = [text EXCEPT ![c] = objects[ObjectKey(c)]]
          /\ Goto(c, "delete")
       \/ Raise(c) /\ UNCHANGED text
    /\ UNCHANGED <<mode, urlLeft, vendorVars, objects, faults>>

\* delete_object, whose failure is only logged, and _validate_csv.
DeleteObject(c) ==
    /\ IsAt(c, "delete")
    /\ \/ objects' = [objects EXCEPT ![ObjectKey(c)] = NoText] /\ UNCHANGED faults
       \/ UNCHANGED objects /\ Note(c, {"delete failed"})
    /\ IF text[c].csv THEN Goto(c, "returned") ELSE Raise(c)
    /\ UNCHANGED <<mode, urlLeft, vendorVars, text>>

\* The process that makes the call is killed.
Kill(c) ==
    /\ call[c].at \notin Ended \cup {"idle"}
    /\ Goto(c, "dead")
    /\ UNCHANGED <<mode, urlLeft, vendorVars, storageVars, faults>>

-----------------------------------------------------------------------------
\* The endpoint: an execution uploads while its URL lives, and ends.

RunUploads(c, i) ==
    /\ run[c][i] = "running"
    /\ urlLeft[c] > 0
    /\ \E csv \in BOOLEAN :
        objects' = [objects EXCEPT ![ObjectKey(c)] = [call |-> c, csv |-> csv]]
    /\ run' = [run EXCEPT ![c][i] = "uploaded"]
    /\ UNCHANGED <<mode, call, urlLeft, sessions, text, faults>>

RunEnds(c, i) ==
    /\ run[c][i] \in {"running", "uploaded"}
    /\ run' = [run EXCEPT ![c][i] = "ended"]
    /\ UNCHANGED <<mode, call, urlLeft, sessions, storageVars, faults>>

Down(n) == IF n = 0 THEN 0 ELSE n - 1

\* Time passes for every call.
Tick ==
    /\ \E c \in Calls : call[c].left > 0 \/ urlLeft[c] > 0
    /\ call' = [c \in Calls |-> [call[c] EXCEPT !.left = Down(@)]]
    /\ urlLeft' = [c \in Calls |-> Down(urlLeft[c])]
    /\ UNCHANGED <<mode, vendorVars, storageVars, faults>>

-----------------------------------------------------------------------------
Step(c) ==
    \/ RunFixture(c) \/ RefuseWithoutStorage(c) \/ PresignUrl(c) \/ DeployAndRun(c)
    \/ UploadScript(c) \/ OpenSession(c) \/ ReadyTimesOut(c) \/ StageScript(c)
    \/ ExecuteScript(c) \/ PollCompletes(c) \/ PollTimesOut(c)
    \/ CloseSession(c) \/ GetObject(c) \/ DeleteObject(c)

Next ==
    \/ \E c \in Calls : Step(c) \/ SessionActive(c) \/ PollRaises(c) \/ Kill(c)
    \/ \E c \in Calls : \E i \in RunIds(c) : RunUploads(c, i) \/ RunEnds(c, i)
    \/ Tick

\* Requests are bounded by their time limits, so a call goes on; so does time.
\* Nothing is assumed of the endpoint, nor that a session becomes active, nor
\* that a poll's request fails.
Spec ==
    /\ Init /\ [][Next]_vars
    /\ \A c \in Calls : WF_vars(Step(c))
    /\ WF_vars(Tick)

-----------------------------------------------------------------------------
\* Properties.

\* A live call returns an upload of its own script, and one that is a CSV:
\* never another call's, and never what the vendor's channel printed.
OwnUpload ==
    \A c \in Calls : IsAt(c, "returned") /\ mode[c].live =>
        text[c] = [call |-> c, csv |-> TRUE]

\* A call that ended has left a Live Response session open only if the session
\* was not ready in time, or opening it was retried, or closing it failed
\* ("Always close the session", carbonblack.py, holds up to these).
SessionLeftOnlyAfterFault ==
    \A c \in Calls : call[c].at \in {"returned", "raised"} /\ sessions[c] > 0 =>
        faults[c] \cap {"not ready", "open repeated", "close failed"} # {}

\* A call that read its object and ended has left none in the bucket, unless
\* the script's start was retried (the second run uploads late) or the deletion
\* failed: also when the text turns out not to be a CSV.  (One that could not
\* be read, or not be decoded, is left.)
ObjectLeftOnlyAfterFault ==
    \A c \in Calls :
        /\ call[c].at \in {"returned", "raised"}
        /\ text[c] # NoText
        /\ objects[ObjectKey(c)] # NoText
        => faults[c] \cap {"start repeated", "delete failed"} # {}

\* Every call that began ends, however the endpoint and the vendor behave,
\* unless its process is killed: a script that hangs is given up at the poll
\* deadline.
CallsEnd == \A c \in Calls : (call[c].at # "idle") ~> (call[c].at \in Ended)
=============================================================================
