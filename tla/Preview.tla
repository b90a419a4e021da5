------------------------------ MODULE Preview ------------------------------
(***************************************************************************)
(* The camera preview: one thread of the application calls the C interface, *)
(* and each preview has a worker thread that opens the camera, reads images *)
(* and calls the application back.  They share two atomic flags, the        *)
(* pointer to the callback object, and the one callback object that the C   *)
(* wrapper keeps for all previews.                                          *)
(***************************************************************************)
EXTENDS Naturals

CONSTANTS Handles,      \* the previews the application may create
          MaxStarts     \* bound: calls of start

ASSUME StartsAssumption == MaxStarts \in Nat

VARIABLES
    created,    \* the previews that exist
    callback,   \* _callback: the callback object a preview calls
    paused,     \* _paused
    canceled,   \* _canceled
    worker,     \* where the worker is; "none": the thread is not joinable
    using,      \* the callback object the worker is in
    object,     \* s_preview_clbk: the callback object that is alive, or none
    made,       \* callback objects made so far
    call,       \* what the application's thread is in, and of which preview
    staleImage, \* the worker took its image after PausePreview had returned
    overlapped  \* the callback object was replaced or freed while a worker of
                \* this or another preview was running

vars == <<created, callback, paused, canceled, worker, using, object, made, call,
          staleImage, overlapped>>
flags == <<callback, paused, canceled>>
threads == <<worker, using, staleImage>>

NoObject == 0
Idle == [op |-> "none"]
Running(h) == worker[h] \notin {"none", "ended"}
SomeRunning == \E h \in Handles : Running(h)

Init ==
    /\ created = {}
    /\ callback = [h \in Handles |-> NoObject]
    /\ paused = [h \in Handles |-> FALSE]
    /\ canceled = [h \in Handles |-> FALSE]
    /\ worker = [h \in Handles |-> "none"]
    /\ using = [h \in Handles |-> NoObject]
    /\ object = NoObject
    /\ made = 0
    /\ call = Idle
    /\ staleImage = [h \in Handles |-> FALSE]
    /\ overlapped = FALSE

-----------------------------------------------------------------------------
(* The application's thread.                                               *)

Create(h) ==
    /\ call = Idle /\ h \notin created
    /\ created' = created \cup {h}
    /\ callback' = [callback EXCEPT ![h] = NoObject]
    /\ paused' = [paused EXCEPT ![h] = FALSE]
    /\ canceled' = [canceled EXCEPT ![h] = FALSE]
    /\ UNCHANGED <<threads, object, made, call, overlapped>>

\* The wrapper makes the new callback object and frees the old one before the
\* preview is told, and whether or not it will start.
StartReplace(h) ==
    /\ call = Idle /\ h \in created /\ made < MaxStarts
    /\ made' = made + 1
    /\ object' = made + 1
    /\ overlapped' = (overlapped \/ SomeRunning)
    /\ call' = [op |-> "store", handle |-> h]
    /\ UNCHANGED <<created, flags, threads>>

StartStore(h) ==
    /\ call = [op |-> "store", handle |-> h]
    /\ callback' = [callback EXCEPT ![h] = object]
    /\ call' = [op |-> "unpause", handle |-> h]
    /\ UNCHANGED <<created, paused, canceled, threads, object, made, overlapped>>

StartUnpause(h) ==
    /\ call = [op |-> "unpause", handle |-> h]
    /\ paused' = [paused EXCEPT ![h] = FALSE]
    /\ staleImage' = [staleImage EXCEPT ![h] = FALSE]
    /\ call' = [op |-> "uncancel", handle |-> h]
    /\ UNCHANGED <<created, callback, canceled, worker, using, object, made, overlapped>>

StartUncancel(h) ==
    /\ call = [op |-> "uncancel", handle |-> h]
    /\ canceled' = [canceled EXCEPT ![h] = FALSE]
    /\ call' = [op |-> "spawn", handle |-> h]
    /\ UNCHANGED <<created, callback, paused, threads, object, made, overlapped>>

\* A thread that was not joined yet, running or ended, lets the start fail.
StartSpawn(h) ==
    /\ call = [op |-> "spawn", handle |-> h]
    /\ worker' = IF worker[h] = "none" THEN [worker EXCEPT ![h] = "open"] ELSE worker
    /\ call' = Idle
    /\ UNCHANGED <<created, flags, using, staleImage, object, made, overlapped>>

PausePreview(h) ==
    /\ call = Idle /\ h \in created
    /\ paused' = [paused EXCEPT ![h] = TRUE]
    /\ UNCHANGED <<created, callback, canceled, threads, object, made, call, overlapped>>

ResumePreview(h) ==
    /\ call = Idle /\ h \in created
    /\ paused' = [paused EXCEPT ![h] = FALSE]
    /\ staleImage' = [staleImage EXCEPT ![h] = FALSE]
    /\ UNCHANGED <<created, callback, canceled, worker, using, object, made, call, overlapped>>

\* (Variant for the mutant runs: a destroyed preview is forgotten at once.)
StopPreviewForgets(h, op) ==
    /\ call = Idle /\ h \in created
    /\ canceled' = [canceled EXCEPT ![h] = TRUE]
    /\ call' = [op |-> op, handle |-> h]
    /\ created' = IF op = "destroy" THEN created \ {h} ELSE created
    /\ UNCHANGED <<callback, paused, threads, object, made, overlapped>>

\* StopPreview, and the destructor that calls it.
StopPreview(h, op) ==
    /\ call = Idle /\ h \in created
    /\ canceled' = [canceled EXCEPT ![h] = TRUE]
    /\ call' = [op |-> op, handle |-> h]
    /\ UNCHANGED <<created, callback, paused, threads, object, made, overlapped>>

Joined(h) == worker[h] \in {"none", "ended"}

StopReturn(h) ==
    /\ call = [op |-> "stop", handle |-> h] /\ Joined(h)
    /\ worker' = [worker EXCEPT ![h] = "none"]
    /\ call' = Idle
    /\ UNCHANGED <<created, flags, using, staleImage, object, made, overlapped>>

\* (Variant: the thread is not waited for.)
DestroyAtOnce(h) ==
    /\ call = [op |-> "destroy", handle |-> h]
    /\ created' = created \ {h}
    /\ object' = NoObject
    /\ overlapped' = (overlapped \/ \E g \in Handles \ {h} : Running(g))
    /\ call' = Idle
    /\ UNCHANGED <<flags, threads, made>>

\* The callback object goes after the preview, whichever preview uses it.
DestroyReturn(h) ==
    /\ call = [op |-> "destroy", handle |-> h] /\ Joined(h)
    /\ worker' = [worker EXCEPT ![h] = "none"]
    /\ created' = created \ {h}
    /\ object' = NoObject
    /\ overlapped' = (overlapped \/ \E g \in Handles \ {h} : Running(g))
    /\ call' = Idle
    /\ UNCHANGED <<flags, using, staleImage, made>>

-----------------------------------------------------------------------------
(* The worker's thread.                                                    *)

WorkerGoes(h, from, to) ==
    /\ worker[h] = from
    /\ worker' = [worker EXCEPT ![h] = to]
    /\ UNCHANGED <<created, callback, paused, object, made, call, overlapped>>

\* The camera may fail to open, or a read throw: the worker cancels itself.
WorkerFails(h) ==
    /\ \E from \in {"open", "read"} : WorkerGoes(h, from, "ended")
    /\ canceled' = [canceled EXCEPT ![h] = TRUE]
    /\ UNCHANGED <<using, staleImage>>

WorkerOpens(h) ==
    /\ WorkerGoes(h, "open", "loop")
    /\ UNCHANGED <<canceled, using, staleImage>>

LoopCanceled(h) ==
    /\ WorkerGoes(h, "loop", IF canceled[h] THEN "ended" ELSE "pausing")
    /\ UNCHANGED <<canceled, using, staleImage>>

\* (Variant: a paused worker waits until it is resumed.)
LoopPausedWaits(h) ==
    /\ WorkerGoes(h, "pausing", IF paused[h] THEN "pausing" ELSE "read")
    /\ UNCHANGED <<canceled, using, staleImage>>

LoopPaused(h) ==
    /\ WorkerGoes(h, "pausing", IF paused[h] THEN "loop" ELSE "read")
    /\ UNCHANGED <<canceled, using, staleImage>>

\* An image or a snapshot is read, or nothing: no frame in time, or one that
\* cannot be decoded.  The result counts only after the flags were looked at.
ReadImage(h) ==
    /\ \E res \in BOOLEAN : WorkerGoes(h, "read", IF res THEN "image" ELSE "nothing")
    /\ staleImage' = [staleImage EXCEPT ![h] = paused[h]]
    /\ UNCHANGED <<canceled, using>>

ReadCanceled(h) ==
    /\ \/ /\ canceled[h]
          /\ \E from \in {"image", "nothing"} : WorkerGoes(h, from, "ended")
       \/ /\ ~canceled[h]
          /\ WorkerGoes(h, "image", "image paused") \/ WorkerGoes(h, "nothing", "loop")
    /\ UNCHANGED <<canceled, using, staleImage>>

\* (Variant: the flag is not looked at again after the read.)
ReadPausedUnchecked(h) ==
    /\ WorkerGoes(h, "image paused", "calling")
    /\ UNCHANGED <<canceled, using, staleImage>>

ReadPaused(h) ==
    /\ WorkerGoes(h, "image paused", IF paused[h] THEN "loop" ELSE "calling")
    /\ UNCHANGED <<canceled, using, staleImage>>

\* The callback object is called through the pointer as it is then.
CallBack(h) ==
    /\ WorkerGoes(h, "calling", "in callback")
    /\ using' = [using EXCEPT ![h] = callback[h]]
    /\ UNCHANGED <<canceled, staleImage>>

\* The application may stop the preview from its callback: the thread cannot
\* join itself, the wrapper returns 0, and the flag stays set.
CallReturns(h) ==
    /\ WorkerGoes(h, "in callback", "loop")
    /\ using' = [using EXCEPT ![h] = NoObject]
    /\ \E stop \in BOOLEAN : canceled' = [canceled EXCEPT ![h] = @ \/ stop]
    /\ UNCHANGED staleImage

Worker(h) ==
    \/ WorkerFails(h) \/ WorkerOpens(h) \/ LoopCanceled(h) \/ LoopPaused(h)
    \/ ReadImage(h) \/ ReadCanceled(h) \/ ReadPaused(h) \/ CallBack(h) \/ CallReturns(h)

InCall(h) ==
    \/ StartStore(h) \/ StartUnpause(h) \/ StartUncancel(h) \/ StartSpawn(h)
    \/ StopReturn(h) \/ DestroyReturn(h)

Application(h) ==
    \/ Create(h) \/ StartReplace(h) \/ PausePreview(h) \/ ResumePreview(h)
    \/ \E op \in {"stop", "destroy"} : StopPreview(h, op)

Next == \E h \in Handles : Application(h) \/ InCall(h) \/ Worker(h)

\* The threads run, a read waits for a bounded time, and the application's
\* callback returns; nothing is assumed of what the application calls.
Spec == Init /\ [][Next]_vars /\ \A h \in Handles : WF_vars(Worker(h)) /\ WF_vars(InCall(h))
-----------------------------------------------------------------------------
WorkerPlaces ==
    {"none", "open", "loop", "pausing", "read", "image", "nothing", "image paused",
     "calling", "in callback", "ended"}

\* The type invariant: a call is of a preview that exists.
PreviewTypeOK ==
    /\ created \subseteq Handles
    /\ callback \in [Handles -> 0 .. made]
    /\ paused \in [Handles -> BOOLEAN]
    /\ canceled \in [Handles -> BOOLEAN]
    /\ worker \in [Handles -> WorkerPlaces]
    /\ using \in [Handles -> 0 .. made]
    /\ object \in 0 .. made
    /\ made \in 0 .. MaxStarts
    /\ \/ call = Idle
       \/ call \in [op : {"store", "unpause", "uncancel", "spawn", "stop", "destroy"},
                    handle : created]
    /\ staleImage \in [Handles -> BOOLEAN]
    /\ overlapped \in BOOLEAN

(***************************************************************************)
(* A worker runs only for a preview that exists, and calls a callback       *)
(* object that is alive: stopping and destroying a preview wait for its     *)
(* worker before anything is freed.  The exception is in the code: starting *)
(* a preview that runs, or starting or destroying another preview, frees    *)
(* the one object they all use.                                             *)
(***************************************************************************)
UsedCallbackIsAlive ==
    \A h \in Handles :
        /\ Running(h) => h \in created
        /\ worker[h] \in {"calling", "in callback"} /\ ~overlapped =>
              /\ object # NoObject /\ callback[h] = object
              /\ worker[h] = "in callback" => using[h] = object

(***************************************************************************)
(* An image that the worker takes from the camera after PausePreview has    *)
(* returned is not shown, unless the preview was resumed or started again.  *)
(***************************************************************************)
PausedImageNotShown ==
    \A h \in Handles : worker[h] = "calling" => ~staleImage[h]

\* StopPreview and the destruction of a preview return, wherever the worker
\* is: paused, reading, in a callback, or gone after an error.
StopReturns ==
    \A h \in Handles :
        (\E op \in {"stop", "destroy"} : call = [op |-> op, handle |-> h]) ~> call = Idle
=============================================================================
