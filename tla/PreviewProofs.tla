--------------------------- MODULE PreviewProofs ---------------------------
(***************************************************************************)
(* Proofs about the camera preview, for any number of previews and starts:  *)
(* the type invariant, that a preview's worker calls a callback object that *)
(* is alive, and that an image taken while paused is not shown.             *)
(***************************************************************************)
EXTENDS Preview, TLAPS

StartCalls == {"store", "unpause", "uncancel", "spawn"}

\* A preview is destroyed only after its worker was joined.
RunningIsCreated == \A h \in Handles : Running(h) => h \in created

\* Unless it has just replaced an object in use, a start is in the middle of its steps while no
\* worker runs; its object is alive, and once stored it is the one the new worker will call.
StartingIsAlone ==
    call.op \in StartCalls /\ ~overlapped =>
        /\ \A g \in Handles : ~Running(g)
        /\ object # NoObject
        /\ call.op # "store" => callback[call.handle] = object

\* The object of a worker that runs is the one that is alive, wherever the worker is.
CalledIsAlive ==
    \A h \in Handles :
        Running(h) /\ ~overlapped =>
            /\ object # NoObject /\ callback[h] = object
            /\ worker[h] = "in callback" => using[h] = object

\* From the read until the callback, an image taken while paused goes with a flag still set, and
\* it does not get past the flag.
StaleIsPaused ==
    \A h \in Handles :
        /\ worker[h] \in {"image", "nothing", "image paused"} /\ staleImage[h] => paused[h]
        /\ worker[h] = "calling" => ~staleImage[h]

\* The inductive invariant.
PreviewInv ==
    /\ PreviewTypeOK
    /\ RunningIsCreated
    /\ StartingIsAlone
    /\ CalledIsAlive
    /\ StaleIsPaused

\* The objects made so far are a number, and none is the number zero.
LEMMA MadeIsNat ==
    PreviewTypeOK => made \in Nat /\ made <= MaxStarts /\ NoObject \in 0 .. made
BY StartsAssumption DEF PreviewTypeOK, NoObject

\* One object more.
LEMMA OneMore ==
    ASSUME NEW n \in Nat, n < MaxStarts
    PROVE  n + 1 \in 0 .. MaxStarts /\ n \in 0 .. (n + 1) /\ n + 1 \in 0 .. (n + 1)
           /\ 0 .. n \subseteq 0 .. (n + 1)
BY StartsAssumption

LEMMA PreviewTypeOKStep ==
    ASSUME PreviewInv, [Next]_vars PROVE PreviewTypeOK'
<1> USE StartsAssumption DEF PreviewInv, PreviewTypeOK, Idle, flags, threads,
              WorkerPlaces, NoObject
<1>0. PreviewTypeOK
  BY DEF PreviewInv
<1>1. ASSUME NEW h \in Handles, Create(h) PROVE PreviewTypeOK'
  <2>1. callback' \in [Handles -> 0 .. made'] /\ paused' \in [Handles -> BOOLEAN]
        /\ canceled' \in [Handles -> BOOLEAN]
    BY <1>0, <1>1, MadeIsNat DEF Create
  <2>2. call' = Idle /\ created' \subseteq Handles
    BY <1>1 DEF Create
  <2> QED
    BY <1>1, <2>1, <2>2 DEF Create
<1>2. ASSUME NEW h \in Handles, StartReplace(h) PROVE PreviewTypeOK'
  <2>1. /\ made' \in 0 .. MaxStarts /\ made \in 0 .. made' /\ object' \in 0 .. made'
        /\ 0 .. made \subseteq 0 .. made'
    <3>1. made \in Nat /\ made < MaxStarts /\ made' = made + 1 /\ object' = made + 1
      BY <1>0, <1>2, MadeIsNat DEF StartReplace
    <3> QED
      BY <3>1, OneMore
  <2>2. callback' \in [Handles -> 0 .. made'] /\ using' \in [Handles -> 0 .. made']
    <3>1. callback' = callback /\ using' = using
      BY <1>2 DEF StartReplace, flags, threads
    <3> QED
      BY <2>1, <3>1
  <2>3. call' \in [op : {"store", "unpause", "uncancel", "spawn", "stop", "destroy"}, handle : created']
    BY <1>2 DEF StartReplace
  <2>4. overlapped' \in BOOLEAN
    BY <1>2 DEF StartReplace, SomeRunning, Running
  <2> QED
    BY <1>2, <2>1, <2>2, <2>3, <2>4 DEF StartReplace
<1>3. ASSUME NEW h \in Handles, PausePreview(h) PROVE PreviewTypeOK'
  BY <1>3 DEF PausePreview
<1>4. ASSUME NEW h \in Handles, ResumePreview(h) PROVE PreviewTypeOK'
  BY <1>4 DEF ResumePreview
<1>5. ASSUME NEW h \in Handles, NEW op \in {"stop", "destroy"}, StopPreview(h, op) PROVE PreviewTypeOK'
  BY <1>5 DEF StopPreview
<1>6. ASSUME NEW h \in Handles, StartStore(h) PROVE PreviewTypeOK'
  BY <1>6 DEF StartStore
<1>7. ASSUME NEW h \in Handles, StartUnpause(h) PROVE PreviewTypeOK'
  BY <1>7 DEF StartUnpause
<1>8. ASSUME NEW h \in Handles, StartUncancel(h) PROVE PreviewTypeOK'
  BY <1>8 DEF StartUncancel
<1>9. ASSUME NEW h \in Handles, StartSpawn(h) PROVE PreviewTypeOK'
  BY <1>9 DEF StartSpawn
<1>10. ASSUME NEW h \in Handles, StopReturn(h) PROVE PreviewTypeOK'
  BY <1>10 DEF StopReturn, Joined
<1>11. ASSUME NEW h \in Handles, DestroyReturn(h) PROVE PreviewTypeOK'
  <2>1. call' = Idle /\ created' \subseteq Handles /\ worker' \in [Handles -> WorkerPlaces]
    BY <1>11 DEF DestroyReturn
  <2>2. object' \in 0 .. made'
    BY <1>0, <1>11, MadeIsNat DEF DestroyReturn
  <2>3. overlapped' \in BOOLEAN
    BY <1>11 DEF DestroyReturn, Running
  <2> QED
    BY <1>11, <2>1, <2>2, <2>3 DEF DestroyReturn
<1>12. ASSUME NEW h \in Handles, WorkerFails(h) PROVE PreviewTypeOK'
  BY <1>12 DEF WorkerFails, WorkerGoes
<1>13. ASSUME NEW h \in Handles, WorkerOpens(h) PROVE PreviewTypeOK'
  BY <1>13 DEF WorkerOpens, WorkerGoes
<1>14. ASSUME NEW h \in Handles, LoopCanceled(h) PROVE PreviewTypeOK'
  BY <1>14 DEF LoopCanceled, WorkerGoes
<1>15. ASSUME NEW h \in Handles, LoopPaused(h) PROVE PreviewTypeOK'
  BY <1>15 DEF LoopPaused, WorkerGoes
<1>16. ASSUME NEW h \in Handles, ReadImage(h) PROVE PreviewTypeOK'
  BY <1>16 DEF ReadImage, WorkerGoes
<1>17. ASSUME NEW h \in Handles, ReadCanceled(h) PROVE PreviewTypeOK'
  BY <1>17 DEF ReadCanceled, WorkerGoes
<1>18. ASSUME NEW h \in Handles, ReadPaused(h) PROVE PreviewTypeOK'
  BY <1>18 DEF ReadPaused, WorkerGoes
<1>19. ASSUME NEW h \in Handles, CallBack(h) PROVE PreviewTypeOK'
  BY <1>19 DEF CallBack, WorkerGoes
<1>20. ASSUME NEW h \in Handles, CallReturns(h) PROVE PreviewTypeOK'
  <2>1. worker' \in [Handles -> WorkerPlaces] /\ using' \in [Handles -> 0 .. made']
    BY <1>0, <1>20, MadeIsNat DEF CallReturns, WorkerGoes
  <2>2. canceled' \in [Handles -> BOOLEAN]
    <3>1. PICK stop \in BOOLEAN : canceled' = [canceled EXCEPT ![h] = @ \/ stop]
      BY <1>20 DEF CallReturns
    <3>2. (canceled[h] \/ stop) \in BOOLEAN
      OBVIOUS
    <3> QED
      BY <3>1, <3>2
  <2> QED
    BY <1>20, <2>1, <2>2 DEF CallReturns, WorkerGoes
<1>21. CASE UNCHANGED vars
  BY <1>21 DEF vars
<1> QED
  BY <1>1, <1>2, <1>3, <1>4, <1>5, <1>6, <1>7, <1>8, <1>9, <1>10, <1>11, <1>12, <1>13, <1>14,
     <1>15, <1>16, <1>17, <1>18, <1>19, <1>20, <1>21 DEF Next, Application, InCall, Worker

LEMMA RunningIsCreatedStep ==
    ASSUME PreviewInv, [Next]_vars PROVE RunningIsCreated'
<1> USE StartsAssumption DEF PreviewInv, PreviewTypeOK, Idle, flags, threads,
              RunningIsCreated, Running
<1>1. ASSUME NEW h \in Handles, Create(h) PROVE RunningIsCreated'
  BY <1>1 DEF Create
<1>2. ASSUME NEW h \in Handles, StartReplace(h) PROVE RunningIsCreated'
  BY <1>2 DEF StartReplace
<1>3. ASSUME NEW h \in Handles, PausePreview(h) PROVE RunningIsCreated'
  BY <1>3 DEF PausePreview
<1>4. ASSUME NEW h \in Handles, ResumePreview(h) PROVE RunningIsCreated'
  BY <1>4 DEF ResumePreview
<1>5. ASSUME NEW h \in Handles, NEW op \in {"stop", "destroy"}, StopPreview(h, op) PROVE RunningIsCreated'
  BY <1>5 DEF StopPreview
<1>6. ASSUME NEW h \in Handles, StartStore(h) PROVE RunningIsCreated'
  BY <1>6 DEF StartStore
<1>7. ASSUME NEW h \in Handles, StartUnpause(h) PROVE RunningIsCreated'
  BY <1>7 DEF StartUnpause
<1>8. ASSUME NEW h \in Handles, StartUncancel(h) PROVE RunningIsCreated'
  BY <1>8 DEF StartUncancel
<1>9. ASSUME NEW h \in Handles, StartSpawn(h) PROVE RunningIsCreated'
  BY <1>9 DEF StartSpawn
<1>10. ASSUME NEW h \in Handles, StopReturn(h) PROVE RunningIsCreated'
  BY <1>10 DEF StopReturn, Joined
<1>11. ASSUME NEW h \in Handles, DestroyReturn(h) PROVE RunningIsCreated'
  BY <1>11 DEF DestroyReturn, Joined
<1>12. ASSUME NEW h \in Handles, WorkerFails(h) PROVE RunningIsCreated'
  BY <1>12 DEF WorkerFails, WorkerGoes
<1>13. ASSUME NEW h \in Handles, WorkerOpens(h) PROVE RunningIsCreated'
  BY <1>13 DEF WorkerOpens, WorkerGoes
<1>14. ASSUME NEW h \in Handles, LoopCanceled(h) PROVE RunningIsCreated'
  BY <1>14 DEF LoopCanceled, WorkerGoes
<1>15. ASSUME NEW h \in Handles, LoopPaused(h) PROVE RunningIsCreated'
  BY <1>15 DEF LoopPaused, WorkerGoes
<1>16. ASSUME NEW h \in Handles, ReadImage(h) PROVE RunningIsCreated'
  BY <1>16 DEF ReadImage, WorkerGoes
<1>17. ASSUME NEW h \in Handles, ReadCanceled(h) PROVE RunningIsCreated'
  BY <1>17 DEF ReadCanceled, WorkerGoes
<1>18. ASSUME NEW h \in Handles, ReadPaused(h) PROVE RunningIsCreated'
  BY <1>18 DEF ReadPaused, WorkerGoes
<1>19. ASSUME NEW h \in Handles, CallBack(h) PROVE RunningIsCreated'
  BY <1>19 DEF CallBack, WorkerGoes
<1>20. ASSUME NEW h \in Handles, CallReturns(h) PROVE RunningIsCreated'
  BY <1>20 DEF CallReturns, WorkerGoes
<1>21. CASE UNCHANGED vars
  BY <1>21 DEF vars
<1> QED
  BY <1>1, <1>2, <1>3, <1>4, <1>5, <1>6, <1>7, <1>8, <1>9, <1>10, <1>11, <1>12, <1>13, <1>14,
     <1>15, <1>16, <1>17, <1>18, <1>19, <1>20, <1>21 DEF Next, Application, InCall, Worker

LEMMA StartingIsAloneStep ==
    ASSUME PreviewInv, [Next]_vars PROVE StartingIsAlone'
<1> USE StartsAssumption DEF PreviewInv, PreviewTypeOK, Idle, flags, threads,
              StartingIsAlone, StartCalls, Running, SomeRunning, NoObject
<1>1. ASSUME NEW h \in Handles, Create(h) PROVE StartingIsAlone'
  BY <1>1 DEF Create
<1>2. ASSUME NEW h \in Handles, StartReplace(h) PROVE StartingIsAlone'
  <2>1. ~overlapped' => \A g \in Handles : ~Running(g)
    BY <1>2 DEF StartReplace
  <2>2. object' # NoObject /\ call'.op = "store"
    BY <1>2 DEF StartReplace
  <2>3. worker' = worker
    BY <1>2 DEF StartReplace
  <2> QED
    BY <2>1, <2>2, <2>3
<1>3. ASSUME NEW h \in Handles, PausePreview(h) PROVE StartingIsAlone'
  BY <1>3 DEF PausePreview
<1>4. ASSUME NEW h \in Handles, ResumePreview(h) PROVE StartingIsAlone'
  BY <1>4 DEF ResumePreview
<1>5. ASSUME NEW h \in Handles, NEW op \in {"stop", "destroy"}, StopPreview(h, op) PROVE StartingIsAlone'
  BY <1>5 DEF StopPreview
<1>6. ASSUME NEW h \in Handles, StartStore(h) PROVE StartingIsAlone'
  BY <1>6 DEF StartStore
<1>7. ASSUME NEW h \in Handles, StartUnpause(h) PROVE StartingIsAlone'
  BY <1>7 DEF StartUnpause
<1>8. ASSUME NEW h \in Handles, StartUncancel(h) PROVE StartingIsAlone'
  BY <1>8 DEF StartUncancel
<1>9. ASSUME NEW h \in Handles, StartSpawn(h) PROVE StartingIsAlone'
  BY <1>9 DEF StartSpawn
<1>10. ASSUME NEW h \in Handles, StopReturn(h) PROVE StartingIsAlone'
  BY <1>10 DEF StopReturn, Joined
<1>11. ASSUME NEW h \in Handles, DestroyReturn(h) PROVE StartingIsAlone'
  BY <1>11 DEF DestroyReturn, Joined
<1>12. ASSUME NEW h \in Handles, WorkerFails(h) PROVE StartingIsAlone'
  BY <1>12 DEF WorkerFails, WorkerGoes
<1>13. ASSUME NEW h \in Handles, WorkerOpens(h) PROVE StartingIsAlone'
  BY <1>13 DEF WorkerOpens, WorkerGoes
<1>14. ASSUME NEW h \in Handles, LoopCanceled(h) PROVE StartingIsAlone'
  BY <1>14 DEF LoopCanceled, WorkerGoes
<1>15. ASSUME NEW h \in Handles, LoopPaused(h) PROVE StartingIsAlone'
  BY <1>15 DEF LoopPaused, WorkerGoes
<1>16. ASSUME NEW h \in Handles, ReadImage(h) PROVE StartingIsAlone'
  BY <1>16 DEF ReadImage, WorkerGoes
<1>17. ASSUME NEW h \in Handles, ReadCanceled(h) PROVE StartingIsAlone'
  BY <1>17 DEF ReadCanceled, WorkerGoes
<1>18. ASSUME NEW h \in Handles, ReadPaused(h) PROVE StartingIsAlone'
  BY <1>18 DEF ReadPaused, WorkerGoes
<1>19. ASSUME NEW h \in Handles, CallBack(h) PROVE StartingIsAlone'
  BY <1>19 DEF CallBack, WorkerGoes
<1>20. ASSUME NEW h \in Handles, CallReturns(h) PROVE StartingIsAlone'
  BY <1>20 DEF CallReturns, WorkerGoes
<1>21. CASE UNCHANGED vars
  BY <1>21 DEF vars
<1> QED
  BY <1>1, <1>2, <1>3, <1>4, <1>5, <1>6, <1>7, <1>8, <1>9, <1>10, <1>11, <1>12, <1>13, <1>14,
     <1>15, <1>16, <1>17, <1>18, <1>19, <1>20, <1>21 DEF Next, Application, InCall, Worker

LEMMA CalledIsAliveStep ==
    ASSUME PreviewInv, [Next]_vars PROVE CalledIsAlive'
<1> USE StartsAssumption DEF PreviewInv, PreviewTypeOK, Idle, flags, threads,
              CalledIsAlive, Running, SomeRunning, NoObject, StartCalls
<1>1. ASSUME NEW h \in Handles, Create(h) PROVE CalledIsAlive'
  <2>1. \A g \in Handles : Running(g) => g # h
    BY <1>1 DEF Create, RunningIsCreated
  <2>2. UNCHANGED <<worker, using, object, overlapped, staleImage>>
    BY <1>1 DEF Create
  <2>3. \A g \in Handles \ {h} : callback'[g] = callback[g] /\ paused'[g] = paused[g]
    BY <1>1 DEF Create
  <2> QED
    BY <2>1, <2>2, <2>3
<1>2. ASSUME NEW h \in Handles, StartReplace(h) PROVE CalledIsAlive'
  BY <1>2 DEF StartReplace
<1>3. ASSUME NEW h \in Handles, PausePreview(h) PROVE CalledIsAlive'
  BY <1>3 DEF PausePreview
<1>4. ASSUME NEW h \in Handles, ResumePreview(h) PROVE CalledIsAlive'
  BY <1>4 DEF ResumePreview
<1>5. ASSUME NEW h \in Handles, NEW op \in {"stop", "destroy"}, StopPreview(h, op) PROVE CalledIsAlive'
  BY <1>5 DEF StopPreview
<1>6. ASSUME NEW h \in Handles, StartStore(h) PROVE CalledIsAlive'
  BY <1>6 DEF StartStore
<1>7. ASSUME NEW h \in Handles, StartUnpause(h) PROVE CalledIsAlive'
  BY <1>7 DEF StartUnpause
<1>8. ASSUME NEW h \in Handles, StartUncancel(h) PROVE CalledIsAlive'
  BY <1>8 DEF StartUncancel
<1>9. ASSUME NEW h \in Handles, StartSpawn(h) PROVE CalledIsAlive'
  <2> SUFFICES ASSUME NEW g \in Handles, Running(g)', ~overlapped'
               PROVE  /\ object' # NoObject /\ callback'[g] = object'
                      /\ worker'[g] = "in callback" => using'[g] = object'
    BY DEF CalledIsAlive
  <2>1. ~Running(g) /\ object # NoObject /\ callback[h] = object
    BY <1>9 DEF StartSpawn, StartingIsAlone
  <2>2. g = h /\ worker'[g] = "open"
    BY <1>9, <2>1 DEF StartSpawn
  <2> QED
    BY <1>9, <2>1, <2>2 DEF StartSpawn
<1>10. ASSUME NEW h \in Handles, StopReturn(h) PROVE CalledIsAlive'
  BY <1>10 DEF StopReturn, Joined
<1>11. ASSUME NEW h \in Handles, DestroyReturn(h) PROVE CalledIsAlive'
  BY <1>11 DEF DestroyReturn, Joined
<1>12. ASSUME NEW h \in Handles, WorkerFails(h) PROVE CalledIsAlive'
  <2>1. UNCHANGED <<object, overlapped, callback, using>>
    BY <1>12 DEF WorkerFails, WorkerGoes
  <2>2. ASSUME NEW g \in Handles, Running(g)' PROVE Running(g) /\ (g = h => worker'[g] # "in callback")
    BY <1>12, <2>2 DEF WorkerFails, WorkerGoes
  <2>3. \A g \in Handles \ {h} : worker'[g] = worker[g]
    BY <1>12 DEF WorkerFails, WorkerGoes
  <2> QED
    BY <2>1, <2>2, <2>3
<1>13. ASSUME NEW h \in Handles, WorkerOpens(h) PROVE CalledIsAlive'
  BY <1>13 DEF WorkerOpens, WorkerGoes
<1>14. ASSUME NEW h \in Handles, LoopCanceled(h) PROVE CalledIsAlive'
  BY <1>14 DEF LoopCanceled, WorkerGoes
<1>15. ASSUME NEW h \in Handles, LoopPaused(h) PROVE CalledIsAlive'
  BY <1>15 DEF LoopPaused, WorkerGoes
<1>16. ASSUME NEW h \in Handles, ReadImage(h) PROVE CalledIsAlive'
  <2>1. UNCHANGED <<object, overlapped, callback, using>>
    BY <1>16 DEF ReadImage, WorkerGoes
  <2>2. ASSUME NEW g \in Handles, Running(g)' PROVE Running(g) /\ (g = h => worker'[g] # "in callback")
    BY <1>16, <2>2 DEF ReadImage, WorkerGoes
  <2>3. \A g \in Handles \ {h} : worker'[g] = worker[g]
    BY <1>16 DEF ReadImage, WorkerGoes
  <2> QED
    BY <2>1, <2>2, <2>3
<1>17. ASSUME NEW h \in Handles, ReadCanceled(h) PROVE CalledIsAlive'
  BY <1>17 DEF ReadCanceled, WorkerGoes
<1>18. ASSUME NEW h \in Handles, ReadPaused(h) PROVE CalledIsAlive'
  BY <1>18 DEF ReadPaused, WorkerGoes
<1>19. ASSUME NEW h \in Handles, CallBack(h) PROVE CalledIsAlive'
  BY <1>19 DEF CallBack, WorkerGoes
<1>20. ASSUME NEW h \in Handles, CallReturns(h) PROVE CalledIsAlive'
  BY <1>20 DEF CallReturns, WorkerGoes
<1>21. CASE UNCHANGED vars
  BY <1>21 DEF vars
<1> QED
  BY <1>1, <1>2, <1>3, <1>4, <1>5, <1>6, <1>7, <1>8, <1>9, <1>10, <1>11, <1>12, <1>13, <1>14,
     <1>15, <1>16, <1>17, <1>18, <1>19, <1>20, <1>21 DEF Next, Application, InCall, Worker

LEMMA StaleIsPausedStep ==
    ASSUME PreviewInv, [Next]_vars PROVE StaleIsPaused'
<1> USE StartsAssumption DEF PreviewInv, PreviewTypeOK, Idle, flags, threads,
              StaleIsPaused, Running
<1>1. ASSUME NEW h \in Handles, Create(h) PROVE StaleIsPaused'
  <2>1. \A g \in Handles : Running(g) => g # h
    BY <1>1 DEF Create, RunningIsCreated
  <2>2. UNCHANGED <<worker, using, object, overlapped, staleImage>>
    BY <1>1 DEF Create
  <2>3. \A g \in Handles \ {h} : callback'[g] = callback[g] /\ paused'[g] = paused[g]
    BY <1>1 DEF Create
  <2> QED
    BY <2>1, <2>2, <2>3
<1>2. ASSUME NEW h \in Handles, StartReplace(h) PROVE StaleIsPaused'
  BY <1>2 DEF StartReplace
<1>3. ASSUME NEW h \in Handles, PausePreview(h) PROVE StaleIsPaused'
  BY <1>3 DEF PausePreview
<1>4. ASSUME NEW h \in Handles, ResumePreview(h) PROVE StaleIsPaused'
  BY <1>4 DEF ResumePreview
<1>5. ASSUME NEW h \in Handles, NEW op \in {"stop", "destroy"}, StopPreview(h, op) PROVE StaleIsPaused'
  BY <1>5 DEF StopPreview
<1>6. ASSUME NEW h \in Handles, StartStore(h) PROVE StaleIsPaused'
  BY <1>6 DEF StartStore
<1>7. ASSUME NEW h \in Handles, StartUnpause(h) PROVE StaleIsPaused'
  BY <1>7 DEF StartUnpause
<1>8. ASSUME NEW h \in Handles, StartUncancel(h) PROVE StaleIsPaused'
  BY <1>8 DEF StartUncancel
<1>9. ASSUME NEW h \in Handles, StartSpawn(h) PROVE StaleIsPaused'
  BY <1>9 DEF StartSpawn
<1>10. ASSUME NEW h \in Handles, StopReturn(h) PROVE StaleIsPaused'
  BY <1>10 DEF StopReturn, Joined
<1>11. ASSUME NEW h \in Handles, DestroyReturn(h) PROVE StaleIsPaused'
  BY <1>11 DEF DestroyReturn, Joined
<1>12. ASSUME NEW h \in Handles, WorkerFails(h) PROVE StaleIsPaused'
  BY <1>12 DEF WorkerFails, WorkerGoes
<1>13. ASSUME NEW h \in Handles, WorkerOpens(h) PROVE StaleIsPaused'
  BY <1>13 DEF WorkerOpens, WorkerGoes
<1>14. ASSUME NEW h \in Handles, LoopCanceled(h) PROVE StaleIsPaused'
  BY <1>14 DEF LoopCanceled, WorkerGoes
<1>15. ASSUME NEW h \in Handles, LoopPaused(h) PROVE StaleIsPaused'
  BY <1>15 DEF LoopPaused, WorkerGoes
<1>16. ASSUME NEW h \in Handles, ReadImage(h) PROVE StaleIsPaused'
  BY <1>16 DEF ReadImage, WorkerGoes
<1>17. ASSUME NEW h \in Handles, ReadCanceled(h) PROVE StaleIsPaused'
  BY <1>17 DEF ReadCanceled, WorkerGoes
<1>18. ASSUME NEW h \in Handles, ReadPaused(h) PROVE StaleIsPaused'
  BY <1>18 DEF ReadPaused, WorkerGoes
<1>19. ASSUME NEW h \in Handles, CallBack(h) PROVE StaleIsPaused'
  BY <1>19 DEF CallBack, WorkerGoes
<1>20. ASSUME NEW h \in Handles, CallReturns(h) PROVE StaleIsPaused'
  BY <1>20 DEF CallReturns, WorkerGoes
<1>21. CASE UNCHANGED vars
  BY <1>21 DEF vars
<1> QED
  BY <1>1, <1>2, <1>3, <1>4, <1>5, <1>6, <1>7, <1>8, <1>9, <1>10, <1>11, <1>12, <1>13, <1>14,
     <1>15, <1>16, <1>17, <1>18, <1>19, <1>20, <1>21 DEF Next, Application, InCall, Worker

LEMMA PreviewInvInit == Init => PreviewInv
<1>1. Init => PreviewTypeOK
  <2>1. 0 \in 0 .. MaxStarts /\ 0 \in 0 .. 0
    BY StartsAssumption
  <2> QED
    BY <2>1 DEF Init, PreviewTypeOK, Idle, NoObject, WorkerPlaces
<1>2. Init => RunningIsCreated /\ StartingIsAlone /\ CalledIsAlive /\ StaleIsPaused
  BY DEF Init, RunningIsCreated, StartingIsAlone, StartCalls, CalledIsAlive, StaleIsPaused, Running, Idle
<1> QED
  BY <1>1, <1>2 DEF PreviewInv

LEMMA PreviewInvStep == PreviewInv /\ [Next]_vars => PreviewInv'
BY PreviewTypeOKStep, RunningIsCreatedStep, StartingIsAloneStep, CalledIsAliveStep, StaleIsPausedStep
   DEF PreviewInv

\* The invariant holds in every state a run reaches.
THEOREM PreviewInvariant == Spec => []PreviewInv
BY PreviewInvInit, PreviewInvStep, PTL DEF Spec

\* A call of the application is of a preview that exists, and every flag, place and callback
\* object is one there is.
THEOREM PreviewTypeCorrect == Spec => []PreviewTypeOK
<1>1. PreviewInv => PreviewTypeOK
  BY DEF PreviewInv
<1> QED
  BY <1>1, PreviewInvariant, PTL

\* A worker runs only for a preview that exists, and as long as nothing replaced or freed the one
\* callback object under a running worker, the object it calls is the one that is alive.
THEOREM UsedCallbackIsAliveHolds == Spec => []UsedCallbackIsAlive
<1>1. PreviewInv => UsedCallbackIsAlive
  BY DEF PreviewInv, RunningIsCreated, CalledIsAlive, UsedCallbackIsAlive, Running
<1> QED
  BY <1>1, PreviewInvariant, PTL

\* An image taken after PausePreview returned is not shown unless the preview was resumed.
THEOREM PausedImageNotShownHolds == Spec => []PausedImageNotShown
<1>1. PreviewInv => PausedImageNotShown
  BY DEF PreviewInv, StaleIsPaused, PausedImageNotShown
<1> QED
  BY <1>1, PreviewInvariant, PTL

=============================================================================
