-------------------------- MODULE LibertasThread ---------------------------
(***************************************************************************)
(* The main thread, its sleep and the timer that watches it, for every     *)
(* value of the constants: nothing is handed to a sleeping card            *)
(* (SleepIsSilent); the thread is not left asleep with something to do     *)
(* (WakeupsArrive) and a command in flight is watched (CommandsAreTimed),  *)
(* each but for one place of the code; driver and firmware agree on power  *)
(* save (PowerSaveAgreed) as long as answers come in time.                 *)
(*                                                                         *)
(* psstate becomes SLEEP at one place, the second half of                  *)
(* lbs_ps_confirm_sleep.  What it found then - no event, no response - and *)
(* what it implies for the main thread - it cannot get to the steps that   *)
(* use hw_host_to_card - lasts until an interrupt takes psstate away.      *)
(***************************************************************************)
EXTENDS LibertasOwners

(* Where the main thread can be while the driver sleeps.                   *)
AsleepLabel == {"check", "asleep", "run", "timeout", "clear_timeout",
                "events", "pre_sleep", "exec", "dead"}

Asleep ==
    psstate = "SLEEP" =>
        /\ event_fifo = <<>>
        /\ resp[resp_idx] = NoResp
        /\ main \in AsleepLabel

Quiet ==
    psstate = "SLEEP" => \/ packets' = packets
                         \/ packets # <<>> /\ packets' = Tail(packets)

Undisturbed == UNCHANGED <<psstate, event_fifo, respVars, main>>

(* What leaves all of this alone keeps it.                                 *)
LEMMA UndisturbedAsleep == Asleep /\ Undisturbed => Asleep'
  BY DEF Asleep, Undisturbed, respVars

(* The callers only fill and queue nodes.                                  *)
LEMMA CallerAsleep ==
    ASSUME NEW c \in Callers, CallerStep(c)
    PROVE  Undisturbed /\ packets' = packets
<1> USE DEF elsewhere, mainVars, Undisturbed
<1>1. CASE Issue(c)
  BY <1>1 DEF Issue
<1>2. CASE SetPower(c)
  BY <1>2 DEF SetPower
<1>3. CASE Queue(c)
  BY <1>3 DEF Queue
<1>4. CASE ReturnSync(c)
  BY <1>4 DEF ReturnSync
<1>5. CASE EndWait(c)
  BY <1>5 DEF EndWait
<1>6. CASE ReturnLegacy(c)
  BY <1>6 DEF ReturnLegacy
<1> QED
  BY <1>1, <1>2, <1>3, <1>4, <1>5, <1>6 DEF CallerStep

(* Nor do the timer, the transmit path and the removal hand anything over. *)
LEMMA OthersAsleep ==
    ASSUME TimerExpires \/ TimerHandler \/ TxStep \/ RemoveStep
    PROVE  Undisturbed /\ packets' = packets
<1> USE DEF mainVars, psVars, Undisturbed
<1>1. CASE TimerExpires \/ TimerHandler
  BY <1>1 DEF TimerExpires, TimerHandler
<1>2. CASE TxStep
  <2> USE DEF txElsewhere
  <2>1. CASE XmitDropped
    BY <2>1 DEF XmitDropped
  <2>2. CASE XmitBusy
    BY <2>2 DEF XmitBusy
  <2>3. CASE XmitBuild
    BY <2>3 DEF XmitBuild
  <2>4. CASE XmitLineUp
    BY <2>4 DEF XmitLineUp
  <2> QED
    BY <1>2, <2>1, <2>2, <2>3, <2>4 DEF TxStep
<1>3. CASE RemoveStep
  <2> USE DEF rmElsewhere
  <2>1. CASE CardRemoved
    BY <2>1 DEF CardRemoved
  <2>2. CASE FlushPending
    BY <2>2 DEF FlushPending
  <2>3. CASE CancelWork
    BY <2>3 DEF CancelWork
  <2>4. CASE StopThread
    BY <2>4 DEF StopThread
  <2>5. CASE FreeAdapter
    BY <2>5 DEF FreeAdapter
  <2> QED
    BY <1>3, <2>1, <2>2, <2>3, <2>4, <2>5 DEF RemoveStep
<1> QED
  BY <1>1, <1>2, <1>3

(* The worker takes packets away; an interrupt that brings an event or a   *)
(* response ends the sleep (lbs_queue_event, lbs_notify_command_response). *)
LEMMA CardAsleep ==
    ASSUME Asleep, CardStep
    PROVE  Asleep' /\ Quiet
<1> USE DEF hostElsewhere, mainVars, Undisturbed, Quiet
<1>1. CASE WritePacket \/ DropPacket
  BY <1>1, UndisturbedAsleep DEF WritePacket, DropPacket
<1>2. CASE DownloadInterrupt
  BY <1>2, UndisturbedAsleep DEF DownloadInterrupt
<1>3. CASE LoseResponse
  BY <1>3, UndisturbedAsleep DEF LoseResponse
<1>4. CASE ResponseInterrupt
  <2>1. CASE UNCHANGED <<respVars, psstate>>
    BY <1>4, <2>1, UndisturbedAsleep DEF ResponseInterrupt
  <2>2. CASE psstate' = Awoken
    BY <1>4, <2>2 DEF ResponseInterrupt, Awoken, Asleep
  <2> QED
    BY <1>4, <2>1, <2>2 DEF ResponseInterrupt, NotifyResponse
<1>5. CASE EventInterrupt
  BY <1>5 DEF EventInterrupt, Awoken, Asleep
<1> QED
  BY <1>1, <1>2, <1>3, <1>4, <1>5 DEF CardStep

(* Serving a response, the handshake and the data packets are for a driver *)
(* that is awake.                                                          *)
LEMMA ServingAwake ==
    ASSUME Asleep, DropResponse \/ PsOrErrorResponse \/ MainRespWakeup
                   \/ GoodResponse \/ MainCallback \/ MainFinish \/ MainConsume
                   \/ MainConfirmDelayed \/ MainConfirm \/ MainTx
    PROVE  psstate # "SLEEP" /\ psstate' # "SLEEP"
<1> USE DEF psVars, Asleep, AsleepLabel
<1>1. CASE DropResponse
  BY <1>1 DEF DropResponse
<1>2. CASE PsOrErrorResponse
  BY <1>2 DEF PsOrErrorResponse, AnswerArrived, PsAfter
<1>3. CASE MainRespWakeup
  BY <1>3 DEF MainRespWakeup
<1>4. CASE GoodResponse
  BY <1>4 DEF GoodResponse, AnswerArrived
<1>5. CASE MainCallback
  BY <1>5 DEF MainCallback
<1>6. CASE MainFinish
  BY <1>6 DEF MainFinish
<1>7. CASE MainConsume
  BY <1>7 DEF MainConsume
<1>8. CASE MainConfirmDelayed
  BY <1>8 DEF MainConfirmDelayed
<1>9. CASE MainConfirm
  BY <1>9 DEF MainConfirm
<1>10. CASE MainTx
  BY <1>10 DEF MainTx
<1> QED
  BY <1>1, <1>2, <1>3, <1>4, <1>5, <1>6, <1>7, <1>8, <1>9, <1>10

(* So are events - there is none while it sleeps - and new commands        *)
(* (lbs_execute_next_command tests psstate).                               *)
LEMMA WorkingAwake ==
    ASSUME Asleep, DeauthEvent \/ PsSleepEvent \/ PsAwakeEvent \/ HostAwakeEvent
                   \/ OtherEvent \/ SubmitNext \/ WakeFirmwareFirst
                   \/ IgnoreEnterPs \/ EnterPowerSave
    PROVE  psstate # "SLEEP" /\ psstate' # "SLEEP"
<1> USE DEF psVars, Asleep, NextEvent, MayExecute
<1>1. CASE DeauthEvent
  BY <1>1 DEF DeauthEvent
<1>2. CASE PsSleepEvent
  BY <1>2 DEF PsSleepEvent
<1>3. CASE PsAwakeEvent
  BY <1>3 DEF PsAwakeEvent
<1>4. CASE HostAwakeEvent
  BY <1>4 DEF HostAwakeEvent
<1>5. CASE OtherEvent
  BY <1>5 DEF OtherEvent
<1>6. CASE SubmitNext
  BY <1>6 DEF SubmitNext
<1>7. CASE WakeFirmwareFirst
  BY <1>7 DEF WakeFirmwareFirst
<1>8. CASE IgnoreEnterPs
  BY <1>8 DEF IgnoreEnterPs
<1>9. CASE EnterPowerSave
  BY <1>9 DEF EnterPowerSave
<1> QED
  BY <1>1, <1>2, <1>3, <1>4, <1>5, <1>6, <1>7, <1>8, <1>9

(* What is left of the loop of lbs_thread goes round among AsleepLabel.    *)
LEMMA LoopAsleep ==
    ASSUME Asleep, MainCheck \/ MainWakeUp \/ MainExit \/ MainRun \/ GiveUp
                   \/ Requeue \/ NoTimeout \/ ClearTimeout \/ NoMoreEvents
                   \/ MainPreSleep \/ NothingToExecute
    PROVE  Asleep' /\ packets' = packets
<1> USE DEF psVars, respVars, Asleep, AsleepLabel, Goto
<1>1. CASE MainCheck
  BY <1>1 DEF MainCheck
<1>2. CASE MainWakeUp
  BY <1>2 DEF MainWakeUp
<1>3. CASE MainExit
  BY <1>3 DEF MainExit
<1>4. CASE MainRun
  BY <1>4 DEF MainRun
<1>5. CASE GiveUp
  BY <1>5 DEF GiveUp
<1>6. CASE Requeue
  BY <1>6 DEF Requeue
<1>7. CASE NoTimeout
  BY <1>7 DEF NoTimeout
<1>8. CASE ClearTimeout
  BY <1>8 DEF ClearTimeout
<1>9. CASE NoMoreEvents
  BY <1>9 DEF NoMoreEvents
<1>10. CASE MainPreSleep
  BY <1>10 DEF MainPreSleep
<1>11. CASE NothingToExecute
  BY <1>11 DEF NothingToExecute
<1> QED
  BY <1>1, <1>2, <1>3, <1>4, <1>5, <1>6, <1>7, <1>8, <1>9, <1>10, <1>11

(* The one step that goes to sleep.                                        *)
LEMMA ConfirmSentAsleep ==
    ASSUME TypeInv, Asleep, MainConfirmSent
    PROVE  Asleep' /\ packets' = packets
<1>1. main_ret \in AsleepLabel
  BY DEF TypeInv, TypeOK, MainTypes, AsleepLabel
<1>2. psstate # "SLEEP"
  BY DEF MainConfirmSent, Asleep, AsleepLabel
<1> QED
  BY <1>1, <1>2 DEF MainConfirmSent, Asleep, respVars

(* Every step of the driver.                                               *)
LEMMA StepAsleep ==
    ASSUME TypeInv, Asleep, [Next]_vars
    PROVE  Asleep' /\ Quiet
<1>1. CASE UNCHANGED vars
  BY <1>1, UndisturbedAsleep DEF vars, Undisturbed, mainVars, psVars, Quiet
<1>2. CASE MainStep
  <2>1. CASE psstate # "SLEEP" /\ psstate' # "SLEEP"
    BY <2>1 DEF Asleep, Quiet
  <2>2. CASE Asleep' /\ packets' = packets
    BY <2>2 DEF Quiet
  <2> QED
    BY <1>2, <2>1, <2>2, ServingAwake, WorkingAwake, LoopAsleep, ConfirmSentAsleep
    DEF MainStep
<1>3. CASE Running
  BY <1>2, <1>3, CallerAsleep, OthersAsleep, CardAsleep, UndisturbedAsleep
  DEF Running, Quiet
<1> QED
  BY <1>1, <1>3 DEF Next, AllReturned, Halted
-----------------------------------------------------------------------------
(* Once lbs_ps_confirm_sleep has put the driver to sleep, nothing is added *)
(* to card->packets until an interrupt wakes it (SilentInSleep): whatever  *)
(* the callers, the timer, the network layer and the removal do meanwhile, *)
(* and however the handshake interleaves with interrupts.                  *)
THEOREM SleepIsSilent == Spec => SilentInSleep
<1>1. Init => Asleep
  BY DEF Init, PrivInit, Asleep
<1>2. TypeInv /\ Asleep /\ [Next]_vars => Asleep'
  BY StepAsleep
<1>3. ASSUME TypeInv, Asleep, [Next]_vars
      PROVE  [psstate = "SLEEP" => Len(packets') <= Len(packets)]_vars
  <2>1. packets \in Seq(Packet)
    BY <1>3 DEF TypeInv, TypeOK
  <2>2. Len(packets) \in Nat /\ (packets # <<>> => Len(Tail(packets)) = Len(packets) - 1)
    BY <2>1, LenProperties, HeadTailProperties
  <2>3. Quiet
    BY <1>3, StepAsleep
  <2> QED
    BY <2>2, <2>3 DEF Quiet
<1> QED
  BY InitTypes, StepTypes, <1>1, <1>2, <1>3, PTL DEF Spec, SilentInSleep
-----------------------------------------------------------------------------
(* Wake-ups.  What the sleeping thread's decision depends on.              *)
decisionVars == <<cmd_timed_out, dnld_sent, tx_pending_len, respVars, cur_cmd,
                  cmdpendingq, event_fifo, removeVars, psstate>>

(* A step keeps NoLostWakeup if it leaves the decision alone, if it wakes  *)
(* the thread, or if the thread does not sleep after it.                   *)
LEMMA DecisionKept ==
    ASSUME NoLostWakeup, UNCHANGED <<decisionVars, main, main_woken>>
    PROVE  NoLostWakeup'
  BY DEF NoLostWakeup, ShouldSleep, NothingToDo, kthread_should_stop, decisionVars,
         respVars, removeVars

LEMMA WokenUp == Wake /\ UNCHANGED main => NoLostWakeup'
  BY DEF Wake, NoLostWakeup

LEMMA NotAsleep == main' # "asleep" => NoLostWakeup'
  BY DEF NoLostWakeup

(* Queueing a command wakes the thread.                                    *)
LEMMA CallerWakes ==
    ASSUME NoLostWakeup, NEW c \in Callers, CallerStep(c)
    PROVE  NoLostWakeup'
<1> USE DEF elsewhere, mainVars, timeVars, txVars, decisionVars
<1>1. CASE Issue(c)
  BY <1>1, DecisionKept, WokenUp DEF Issue, GetNode, ReturnEarly, nodeVars
<1>2. CASE SetPower(c)
  BY <1>2, DecisionKept, WokenUp DEF SetPower, lbs_set_power_on, lbs_set_power_off,
     GetNode, ReturnEarly, nodeVars
<1>3. CASE Queue(c)
  BY <1>3, WokenUp DEF Queue
<1>4. CASE ReturnSync(c)
  BY <1>4, DecisionKept DEF ReturnSync
<1>5. CASE EndWait(c)
  BY <1>5, DecisionKept DEF EndWait, nodeVars
<1>6. CASE ReturnLegacy(c)
  BY <1>6, DecisionKept DEF ReturnLegacy, nodeVars
<1> QED
  BY <1>1, <1>2, <1>3, <1>4, <1>5, <1>6 DEF CallerStep

(* lbs_host_to_card_done wakes the thread only for the next packet.  With  *)
(* an answer waiting in the response buffer that is not enough.            *)
AnswerNoticed ==
    DownloadInterrupt => \/ resp[resp_idx] = NoResp
                         \/ cur_cmd = NoNode \/ tx_pending_len > 0

LEMMA CardWakes ==
    ASSUME NoLostWakeup, TypeInv, CardStep, AnswerNoticed
    PROVE  NoLostWakeup'
<1> USE DEF hostElsewhere, mainVars, timeVars, curVars, nodeVars, txVars, decisionVars
<1>1. CASE WritePacket \/ DropPacket \/ LoseResponse
  BY <1>1, DecisionKept DEF WritePacket, DropPacket, LoseResponse
<1>2. CASE DownloadInterrupt
  <2>1. CASE cur_cmd = NoNode \/ tx_pending_len > 0
    BY <1>2, <2>1, WokenUp DEF DownloadInterrupt, WakeForNext
  <2>2. CASE cur_cmd # NoNode /\ ~(tx_pending_len > 0)
    <3>1. tx_pending_len <= 0 /\ resp[resp_idx] = NoResp
      BY <1>2, <2>2 DEF AnswerNoticed, TypeInv, TypeOK, TxTypes
    <3>2. UNCHANGED <<cmd_timed_out, tx_pending_len, respVars, cur_cmd, removeVars,
                      psstate, main, main_woken>>
      BY <1>2, <2>2 DEF DownloadInterrupt, WakeForNext
    <3> QED
      BY <2>2, <3>1, <3>2 DEF NoLostWakeup, ShouldSleep, NothingToDo,
         kthread_should_stop, respVars, removeVars
  <2> QED
    BY <2>1, <2>2
<1>3. CASE ResponseInterrupt
  <2>1. CASE UNCHANGED <<respVars, psstate, main_woken>>
    BY <1>3, <2>1, DecisionKept DEF ResponseInterrupt
  <2>2. CASE Wake
    BY <1>3, <2>2, WokenUp DEF ResponseInterrupt
  <2> QED
    BY <1>3, <2>1, <2>2 DEF ResponseInterrupt, NotifyResponse
<1>4. CASE EventInterrupt
  BY <1>4, WokenUp DEF EventInterrupt
<1> QED
  BY <1>1, <1>2, <1>3, <1>4 DEF CardStep

LEMMA OthersWake ==
    ASSUME NoLostWakeup, TypeInv, TimerExpires \/ TimerHandler \/ TxStep \/ RemoveStep
    PROVE  NoLostWakeup'
<1> USE DEF mainVars, timeVars, curVars, nodeVars, txVars, psVars, decisionVars
<1>1. CASE TimerExpires
  BY <1>1, DecisionKept DEF TimerExpires
<1>2. CASE TimerHandler
  BY <1>2, DecisionKept, WokenUp DEF TimerHandler
<1>3. CASE TxStep
  <2>1. CASE XmitDropped \/ XmitBusy \/ XmitLineUp
    BY <2>1, WokenUp DEF XmitDropped, XmitBusy, XmitLineUp, txElsewhere
  <2>2. CASE XmitBuild
    BY <2>2 DEF XmitBuild, txElsewhere, NoLostWakeup, ShouldSleep, NothingToDo,
       kthread_should_stop, respVars, removeVars
  <2> QED
    BY <1>3, <2>1, <2>2 DEF TxStep
<1>4. CASE RemoveStep
  <2> USE DEF rmElsewhere
  <2>1. CASE CardRemoved
    BY <2>1 DEF CardRemoved, NoLostWakeup, ShouldSleep, kthread_should_stop
  <2>2. CASE FlushPending \/ CancelWork
    BY <2>2 DEF FlushPending, CancelWork, NoLostWakeup, ShouldSleep, NothingToDo,
       kthread_should_stop, respVars
  <2>3. CASE StopThread
    BY <2>3, WokenUp DEF StopThread
  <2>4. CASE FreeAdapter
    BY <2>4, NotAsleep DEF FreeAdapter
  <2> QED
    BY <1>4, <2>1, <2>2, <2>3, <2>4 DEF RemoveStep
<1> QED
  BY <1>1, <1>2, <1>3, <1>4

(* The thread falls asleep by one step, which decides to.                  *)
LEMMA OnlyCheckSleeps ==
    ASSUME TypeInv, MainStep, ~MainCheck
    PROVE  main' # "asleep"
<1> USE DEF Goto, NextEvent, mainVars
<1>1. main_ret # "asleep"
  BY DEF TypeInv, TypeOK, MainTypes
<1>2. CASE MainWakeUp \/ MainExit \/ MainRun \/ DropResponse \/ PsOrErrorResponse
           \/ MainRespWakeup \/ GoodResponse \/ MainCallback \/ MainFinish \/ MainConsume
  BY <1>2 DEF MainWakeUp, MainExit, MainRun, DropResponse, PsOrErrorResponse,
     MainRespWakeup, GoodResponse, MainCallback, MainFinish, MainConsume
<1>3. CASE GiveUp \/ Requeue \/ NoTimeout \/ ClearTimeout \/ NoMoreEvents
  BY <1>3 DEF GiveUp, Requeue, NoTimeout, ClearTimeout, NoMoreEvents
<1>4. CASE DeauthEvent \/ PsSleepEvent \/ PsAwakeEvent \/ HostAwakeEvent \/ OtherEvent
  BY <1>4 DEF DeauthEvent, PsSleepEvent, PsAwakeEvent, HostAwakeEvent, OtherEvent
<1>5. CASE MainPreSleep \/ MainConfirmDelayed \/ MainConfirm \/ MainConfirmSent
  BY <1>1, <1>5 DEF MainPreSleep, MainConfirmDelayed, MainConfirm, MainConfirmSent
<1>6. CASE SubmitNext \/ WakeFirmwareFirst \/ IgnoreEnterPs \/ EnterPowerSave
           \/ NothingToExecute \/ MainTx
  BY <1>6 DEF SubmitNext, WakeFirmwareFirst, IgnoreEnterPs, EnterPowerSave,
     NothingToExecute, MainTx
<1> QED
  BY <1>2, <1>3, <1>4, <1>5, <1>6 DEF MainStep

LEMMA StepWakes ==
    ASSUME NoLostWakeup, TypeInv, [Next]_vars, [AnswerNoticed]_vars
    PROVE  NoLostWakeup'
<1>1. CASE UNCHANGED vars
  BY <1>1, DecisionKept DEF vars, nodeVars, curVars, timeVars, txVars, psVars,
     mainVars, decisionVars
<1>2. CASE AnswerNoticed /\ Running
  <2>1. CASE MainStep
    <3>1. CASE MainCheck
      BY <3>1 DEF MainCheck, NoLostWakeup, ShouldSleep, NothingToDo,
         kthread_should_stop, respVars, removeVars, curVars, timeVars, nodeVars,
         txVars, psVars
    <3> QED
      BY <2>1, <3>1, OnlyCheckSleeps, NotAsleep
  <2> QED
    BY <1>2, <2>1, CallerWakes, CardWakes, OthersWake DEF Running
<1> QED
  BY <1>1, <1>2 DEF Next, AllReturned, Halted

(* No wake-up is lost: whatever the callers, the timer, the interrupts,    *)
(* the network layer and the removal do between the tests of lbs_thread    *)
(* (main.c) and its schedule(), it does not stay asleep with something to  *)
(* do (NoLostWakeup) - unless lbs_host_to_card_done passes over an answer. *)
THEOREM WakeupsArrive == Spec /\ [][AnswerNoticed]_vars => []NoLostWakeup
<1>1. Init => NoLostWakeup
  BY DEF Init, PrivInit, NoLostWakeup
<1>2. NoLostWakeup /\ TypeInv /\ [Next]_vars /\ [AnswerNoticed]_vars => NoLostWakeup'
  BY StepWakes
<1> QED
  BY InitTypes, StepTypes, <1>1, <1>2, PTL DEF Spec
-----------------------------------------------------------------------------
(* Timeouts.  Outside the few steps that serve its response, the command   *)
(* in flight has a timer or an expiry on record, until the card goes.      *)
ServingLabel == {"resp_wakeup", "callback", "finish"}

Watched ==
    /\ cur_cmd # NoNode
       => timer \/ timer_running \/ cmd_timed_out \/ surpriseremoved \/ main \in ServingLabel
    /\ remover # "plugged" => surpriseremoved

watchVars == <<cur_cmd, timer, timer_running, cmd_timed_out, removeVars>>

LEMMA WatchKept ==
    ASSUME Watched, UNCHANGED watchVars, UNCHANGED main \/ main \notin ServingLabel
    PROVE  Watched'
  BY DEF Watched, watchVars, removeVars

(* Nothing but the main thread takes a command in flight off its timer.    *)
LEMMA OthersWatch ==
    ASSUME Watched,
           \/ \E c \in Callers : CallerStep(c)
           \/ TimerExpires \/ TimerHandler \/ CardStep \/ TxStep \/ RemoveStep
    PROVE  Watched'
<1> USE DEF mainVars, timeVars, curVars, watchVars
<1>1. ASSUME NEW c \in Callers, CallerStep(c) PROVE Watched'
  BY <1>1, WatchKept DEF CallerStep, Issue, SetPower, Queue, ReturnSync, EndWait,
     ReturnLegacy, elsewhere
<1>2. CASE TimerExpires \/ TimerHandler
  BY <1>2 DEF TimerExpires, TimerHandler, Watched, removeVars
<1>3. CASE CardStep
  BY <1>3, WatchKept DEF CardStep, WritePacket, DropPacket, DownloadInterrupt,
     ResponseInterrupt, LoseResponse, EventInterrupt, hostElsewhere
<1>4. CASE TxStep
  BY <1>4, WatchKept DEF TxStep, XmitDropped, XmitBusy, XmitBuild, XmitLineUp, txElsewhere
<1>5. CASE RemoveStep
  BY <1>5 DEF RemoveStep, CardRemoved, FlushPending, CancelWork, StopThread,
     FreeAdapter, rmElsewhere, Watched
<1> QED
  BY <1>1, <1>2, <1>3, <1>4, <1>5

(* The steps of the main thread that complete or requeue the command, or   *)
(* put it in flight.                                                       *)
LEMMA MainWatches ==
    ASSUME Watched, PsOrErrorResponse \/ GoodResponse \/ MainFinish \/ GiveUp
                    \/ Requeue \/ IgnoreEnterPs \/ SubmitNext \/ MainExit
    PROVE  Watched'
<1> USE DEF Watched, removeVars, Complete, Goto
<1>1. CASE PsOrErrorResponse \/ GoodResponse
  BY <1>1 DEF PsOrErrorResponse, GoodResponse, AnswerArrived, EndRetries, ServingLabel
<1>2. CASE MainFinish \/ GiveUp \/ Requeue \/ IgnoreEnterPs
  BY <1>2 DEF MainFinish, GiveUp, Requeue, IgnoreEnterPs
<1>3. CASE SubmitNext
  BY <1>3 DEF SubmitNext, HandOver
<1>4. CASE MainExit
  BY <1>4 DEF MainExit, kthread_should_stop
<1> QED
  BY <1>1, <1>2, <1>3, <1>4

(* The unconditional cmd_timed_out = 0 of lbs_thread, a moment after the   *)
(* test, throws nothing away.                                              *)
ExpirySeen == ClearTimeout => ~TimedOut

LEMMA LoopWatches ==
    ASSUME Watched, ExpirySeen, MainStep,
           ~(PsOrErrorResponse \/ GoodResponse \/ MainFinish \/ GiveUp
             \/ Requeue \/ IgnoreEnterPs \/ SubmitNext \/ MainExit)
    PROVE  Watched'
<1> USE DEF Goto, NextEvent, mainVars, timeVars, curVars, watchVars
<1>1. CASE MainCheck \/ MainWakeUp \/ MainRun \/ DropResponse \/ MainConsume
           \/ NoTimeout \/ NoMoreEvents
  BY <1>1, WatchKept DEF MainCheck, MainWakeUp, MainRun, DropResponse, MainConsume,
     NoTimeout, NoMoreEvents, ServingLabel
<1>2. CASE MainRespWakeup \/ MainCallback
  BY <1>2 DEF MainRespWakeup, MainCallback, Watched, ServingLabel, removeVars
<1>3. CASE ClearTimeout
  BY <1>3 DEF ClearTimeout, ExpirySeen, TimedOut, Watched, ServingLabel, removeVars
<1>4. CASE DeauthEvent \/ PsSleepEvent \/ PsAwakeEvent \/ HostAwakeEvent \/ OtherEvent
  BY <1>4, WatchKept DEF DeauthEvent, PsSleepEvent, PsAwakeEvent, HostAwakeEvent,
     OtherEvent, ServingLabel
<1>5. CASE MainPreSleep \/ MainConfirmDelayed \/ MainConfirm \/ MainConfirmSent
  BY <1>5, WatchKept DEF MainPreSleep, MainConfirmDelayed, MainConfirm,
     MainConfirmSent, ServingLabel
<1>6. CASE WakeFirmwareFirst \/ EnterPowerSave \/ NothingToExecute \/ MainTx
  BY <1>6, WatchKept DEF WakeFirmwareFirst, EnterPowerSave, NothingToExecute, MainTx,
     MayExecute, ServingLabel
<1> QED
  BY <1>1, <1>2, <1>3, <1>4, <1>5, <1>6 DEF MainStep

LEMMA StepWatches ==
    ASSUME Watched, [Next]_vars, [ExpirySeen]_vars
    PROVE  Watched'
<1>1. CASE UNCHANGED vars
  BY <1>1, WatchKept DEF vars, curVars, timeVars, mainVars, watchVars
<1>2. CASE ExpirySeen /\ Running
  BY <1>2, OthersWatch, MainWatches, LoopWatches DEF Running
<1> QED
  BY <1>1, <1>2 DEF Next, AllReturned, Halted

(* A command in flight is watched by its timer as long as the card is      *)
(* there, however the timer's handler (command_timer_fn), answers, retries *)
(* and completions interleave (InFlightIsTimed) - unless an expiry comes   *)
(* between lbs_thread's test of cmd_timed_out and its clearing.            *)
THEOREM CommandsAreTimed == Spec /\ [][ExpirySeen]_vars => []InFlightIsTimed
<1>1. Init => Watched
  BY DEF Init, PrivInit, Watched
<1>2. Watched /\ [Next]_vars /\ [ExpirySeen]_vars => Watched'
  BY StepWatches
<1>3. Watched => InFlightIsTimed
  BY DEF Watched, InFlightIsTimed, ServingLabel
<1> QED
  BY <1>1, <1>2, <1>3, PTL DEF Spec
-----------------------------------------------------------------------------
(* Power save.  Driver and firmware can disagree only by an answer that is *)
(* taken for another command's, so the argument is about copies: of a      *)
(* command on the bus or in the firmware, and an answer not yet served,    *)
(* there is one at most, and it belongs to the command in flight.          *)
InFlightMsg == [cmd |-> node[cur_cmd].cmd, seq |-> node[cur_cmd].seq, rid |-> node[cur_cmd].rid]

OnTheBus == {i \in 1 .. Len(packets) : packets[i].kind = "cmd"}

Answer == resp[resp_idx]

ServesLabel == {"resp", "consume"} \cup ServingLabel

OneCopy ==
    /\ \A i \in OnTheBus :
          /\ cur_cmd # NoNode /\ packets[i].msg = InFlightMsg
          /\ \A j \in OnTheBus : j = i
          /\ fw_cmds = <<>> /\ Answer = NoResp
    /\ fw_cmds # <<>> =>
          cur_cmd # NoNode /\ fw_cmds = <<InFlightMsg>> /\ Answer = NoResp
    /\ Answer # NoResp /\ main # "consume" =>
          cur_cmd # NoNode /\ Answer.cmd = InFlightMsg.cmd /\ Answer.seq = InFlightMsg.seq
    /\ main \in ServesLabel => main_idx = resp_idx /\ Answer # NoResp
    /\ resp[1 - resp_idx] = NoResp
    /\ cur_cmd # NoNode => node[cur_cmd].sent > 0

NoCopy == OnTheBus = {} /\ fw_cmds = <<>> /\ Answer = NoResp

(* The timer watches the command in flight, and has expired only if no     *)
(* copy of it is left to be answered.                                      *)
TimerTrue ==
    /\ timer \/ timer_running \/ cmd_timed_out => cur_cmd # NoNode
    /\ timer => ~timer_running /\ ~cmd_timed_out
    /\ timer_running => ~cmd_timed_out
    /\ timer_running \/ cmd_timed_out => NoCopy
    /\ main \in ServingLabel => ~timer
    /\ dnld_sent => packets # <<>> \/ fw_ack

(* What an answer that is not served yet says of the firmware; without one *)
(* the driver and the firmware agree.                                      *)
Agreement ==
    /\ psstate = "FULL_POWER" /\ fw_ps # "off" =>
          Entered(Answer) /\ main \notin ServesLabel \ {"resp"}
    /\ Exited(Answer) /\ main # "consume" => fw_ps = "off"

PsInv == OneCopy /\ TimerTrue /\ Agreement
-----------------------------------------------------------------------------
(* hw_host_to_card adds to card->packets.                                  *)
LEMMA BusAppended ==
    ASSUME TypeInv, NEW p \in Packet, packets' = Append(packets, p)
    PROVE  /\ p.kind # "cmd" => OnTheBus' = OnTheBus
           /\ p.kind = "cmd" => OnTheBus' = OnTheBus \cup {Len(packets) + 1}
           /\ packets' # <<>> /\ packets'[Len(packets) + 1] = p
           /\ \A i \in OnTheBus : packets'[i] = packets[i] /\ i # Len(packets) + 1
<1>1. packets \in Seq(Packet)
  BY DEF TypeInv, TypeOK
<1>2. /\ Len(packets) \in Nat /\ Len(packets') = Len(packets) + 1
      /\ packets'[Len(packets) + 1] = p /\ packets' # <<>>
      /\ \A i \in 1 .. Len(packets) : packets'[i] = packets[i]
  BY <1>1, AppendProperties, LenProperties, EmptySeq
<1> QED
  BY <1>2 DEF OnTheBus

(* The worker takes the first packet.                                      *)
LEMMA BusTaken ==
    ASSUME TypeInv, packets # <<>>, packets' = Tail(packets)
    PROVE  /\ Head(packets).kind = "cmd" => 1 \in OnTheBus /\ Head(packets) = packets[1]
           /\ \A i \in OnTheBus' : i + 1 \in OnTheBus /\ packets'[i] = packets[i + 1] /\ i # 0
<1>1. packets \in Seq(Packet)
  BY DEF TypeInv, TypeOK
<1>2. /\ Len(packets) \in Nat /\ Len(packets) >= 1 /\ Len(packets') = Len(packets) - 1
      /\ \A i \in 1 .. Len(packets) - 1 : packets'[i] = packets[i + 1]
      /\ Head(packets) = packets[1]
  BY <1>1, HeadTailProperties, LenProperties, EmptySeq
<1> QED
  BY <1>2 DEF OnTheBus
-----------------------------------------------------------------------------
(* The command in flight stays the same.                                   *)
SameFlight ==
    /\ cur_cmd' = cur_cmd
    /\ cur_cmd # NoNode => InFlightMsg' = InFlightMsg
                           /\ node'[cur_cmd].sent = node[cur_cmd].sent

(* A step that does not touch the nodes keeps it.                          *)
LEMMA FlightUntouched == UNCHANGED <<cur_cmd, node>> => SameFlight
  BY DEF SameFlight, InFlightMsg

(* Where the main thread is, as far as it matters here.                    *)
SamePlace ==
    \/ UNCHANGED <<main, main_idx>>
    \/ main \notin ServesLabel /\ main' \notin ServesLabel

copyVars == <<packets, fw_cmds, respVars>>

(* A step keeps the three parts if it leaves what they are about alone:    *)
(* the copies, ...                                                         *)
LEMMA OneCopyKept ==
    ASSUME OneCopy, SameFlight, SamePlace, UNCHANGED copyVars
    PROVE  OneCopy'
<1> USE DEF copyVars, respVars
<1>1. Answer' = Answer /\ OnTheBus' = OnTheBus
  BY DEF Answer, OnTheBus
<1>2. \A i \in OnTheBus' :
          /\ cur_cmd' # NoNode /\ packets'[i].msg = InFlightMsg'
          /\ \A j \in OnTheBus' : j = i
          /\ fw_cmds' = <<>> /\ Answer' = NoResp
  BY <1>1 DEF OneCopy, SameFlight
<1>3. fw_cmds' # <<>> =>
          cur_cmd' # NoNode /\ fw_cmds' = <<InFlightMsg'>> /\ Answer' = NoResp
  BY <1>1 DEF OneCopy, SameFlight
<1>4. Answer' # NoResp /\ main' # "consume" =>
          cur_cmd' # NoNode /\ Answer'.cmd = InFlightMsg'.cmd /\ Answer'.seq = InFlightMsg'.seq
  BY <1>1 DEF OneCopy, SameFlight, SamePlace, ServesLabel
<1>5. main' \in ServesLabel => main_idx' = resp_idx' /\ Answer' # NoResp
  BY <1>1 DEF OneCopy, SamePlace
<1>6. resp'[1 - resp_idx'] = NoResp /\ (cur_cmd' # NoNode => node'[cur_cmd'].sent > 0)
  BY DEF OneCopy, SameFlight
<1> QED
  BY <1>2, <1>3, <1>4, <1>5, <1>6 DEF OneCopy

(* ... what the timer watches, ...                                         *)
LEMMA TimerKept ==
    ASSUME TimerTrue, cur_cmd' = cur_cmd, SamePlace, UNCHANGED copyVars,
           UNCHANGED <<timer, timer_running, cmd_timed_out>>,
           dnld_sent' => dnld_sent /\ (fw_ack => fw_ack')
    PROVE  TimerTrue'
<1>1. NoCopy' = NoCopy
  BY DEF NoCopy, copyVars, respVars, OnTheBus, Answer
<1>2. main' \in ServingLabel => main \in ServingLabel
  BY DEF SamePlace, ServesLabel
<1> QED
  BY <1>1, <1>2 DEF TimerTrue, copyVars

(* ... what is known of the firmware, ...                                  *)
LEMMA AgreementKept ==
    ASSUME Agreement, SamePlace, UNCHANGED respVars,
           psstate' = "FULL_POWER" => psstate = "FULL_POWER",
           fw_ps' = "off" <=> fw_ps = "off"
    PROVE  Agreement'
<1>1. Answer' = Answer
  BY DEF Answer, respVars
<1>2. main' # "consume" => main # "consume"
  BY DEF SamePlace, ServesLabel
<1>3. main' \in ServesLabel \ {"resp"} => main \in ServesLabel \ {"resp"}
  BY DEF SamePlace
<1> QED
  BY <1>1, <1>2, <1>3 DEF Agreement, Entered, Exited

psElsewhere == <<copyVars, timer, timer_running, cmd_timed_out, dnld_sent, fw_ack, psstate, fw_ps>>

(* ... and all of it.                                                      *)
LEMMA PsKept ==
    ASSUME PsInv, SameFlight, SamePlace, UNCHANGED psElsewhere
    PROVE  PsInv'
  BY OneCopyKept, TimerKept, AgreementKept DEF PsInv, psElsewhere, copyVars, SameFlight
-----------------------------------------------------------------------------
(* Nodes that others fill or free are not in flight.                       *)
LEMMA PreparedElsewhere ==
    ASSUME TypeInv, OwnInv, NEW cmd, PrepareNoWait(cmd) \/ UNCHANGED nodeVars,
           cur_cmd' = cur_cmd
    PROVE  SameFlight
<1>1. CASE UNCHANGED nodeVars
  BY <1>1, FlightUntouched DEF nodeVars
<1>2. CASE PrepareNoWait(cmd) /\ ~UNCHANGED nodeVars
  <2>1. cmdfreeq \in Seq(Nodes) /\ cmdfreeq # <<>> /\ node \in [Nodes -> NodeRec]
    BY <1>2 DEF PrepareNoWait, TypeInv, TypeOK, QueueTypes, nodeVars
  <2>2. Head(cmdfreeq) \in Free
    BY <2>1, TailSet DEF OwnInv, ListsApart, Free
  <2>3. cur_cmd # NoNode => cur_cmd # Head(cmdfreeq) /\ cur_cmd \in Nodes
    BY <2>2, ListsOfNodes DEF OwnInv, ListsApart, Queued
  <2>4. cur_cmd # NoNode => node'[cur_cmd] = node[cur_cmd]
    BY <1>2, <2>1, <2>3 DEF PrepareNoWait, nodeVars
  <2> QED
    BY <2>4 DEF SameFlight, InFlightMsg
<1> QED
  BY <1>1, <1>2

(* A caller fills a node that is not queued yet and frees one that is      *)
(* complete: neither is in flight.                                         *)
LEMMA CallerElsewhere ==
    ASSUME TypeInv, OwnInv, Signals = {}, NEW c \in Callers, CallerStep(c)
    PROVE  SameFlight
<1>1. /\ cmdfreeq \in Seq(Nodes) /\ node \in [Nodes -> NodeRec]
      /\ \A d \in Callers : pc[d] \in {"filled", "wait"} => held[d] \in Nodes
  BY DEF TypeInv, TypeOK, QueueTypes, Holding
<1>2. cur_cmd' = cur_cmd
  BY DEF CallerStep, Issue, SetPower, Queue, ReturnSync, EndWait, ReturnLegacy, elsewhere
<1>3. cur_cmd # NoNode => cur_cmd \in Queued /\ cur_cmd \in Nodes /\ cur_cmd \notin Free
  BY ListsOfNodes DEF Queued, OwnInv, ListsApart
<1>4. CASE \E api, cmd : GetNode(c, api, cmd)
  <2>1. CASE UNCHANGED node
    BY <1>2, <2>1, FlightUntouched
  <2>2. CASE cmdfreeq # <<>> /\ \A n \in Nodes : n # Head(cmdfreeq) => node'[n] = node[n]
    <3>1. Head(cmdfreeq) \in Free
      BY <1>1, <2>2, TailSet DEF OwnInv, ListsApart, Free
    <3>2. cur_cmd # NoNode => node'[cur_cmd] = node[cur_cmd]
      BY <1>3, <2>2, <3>1
    <3> QED
      BY <1>2, <3>2 DEF SameFlight, InFlightMsg
  <2> QED
    BY <1>1, <1>4, <2>1, <2>2 DEF GetNode, ReturnEarly, nodeVars
<1>5. CASE Queue(c)
  <2>1. cur_cmd # NoNode => cur_cmd # held[c]
    BY <1>3, <1>5 DEF Queue, OwnInv, Fillers
  <2>2. cur_cmd # NoNode => node'[cur_cmd] = node[cur_cmd]
    BY <1>1, <1>3, <1>5, <2>1 DEF Queue
  <2> QED
    BY <1>2, <2>2 DEF SameFlight, InFlightMsg
<1>6. CASE ReturnSync(c)
  <2>1. node[held[c]].woken
    BY <1>6 DEF ReturnSync
  <2>2. cur_cmd # NoNode => cur_cmd # held[c]
    BY <1>3, <2>1 DEF OwnInv, QueuedNodes
  <2>3. cur_cmd # NoNode => node'[cur_cmd] = node[cur_cmd]
    BY <1>1, <1>3, <1>6, <2>2 DEF ReturnSync, Cleaned
  <2> QED
    BY <1>2, <2>3 DEF SameFlight, InFlightMsg
<1>7. CASE Issue(c) \/ SetPower(c)
  <2>1. (\E api, cmd : GetNode(c, api, cmd)) \/ UNCHANGED node
    BY <1>7 DEF Issue, SetPower, lbs_set_power_on, lbs_set_power_off, ReturnEarly, nodeVars
  <2> QED
    BY <1>2, <1>4, <2>1, FlightUntouched
<1>8. CASE EndWait(c) \/ ReturnLegacy(c)
  <2>1. UNCHANGED node
    BY <1>8 DEF EndWait, ReturnLegacy, nodeVars
  <2> QED
    BY <1>2, <2>1, FlightUntouched
<1> QED
  BY <1>5, <1>6, <1>7, <1>8 DEF CallerStep

(* The callers hand nothing over.                                          *)
LEMMA CallerAgrees ==
    ASSUME TypeInv, OwnInv, PsInv, Signals = {}, NEW c \in Callers, CallerStep(c)
    PROVE  PsInv'
<1>1. UNCHANGED <<mainVars, psElsewhere>>
  BY DEF CallerStep, Issue, SetPower, Queue, ReturnSync, EndWait, ReturnLegacy,
         elsewhere, psElsewhere, copyVars, timeVars, fwVars
<1> QED
  BY <1>1, CallerElsewhere, PsKept DEF SamePlace, mainVars

(* Nor has lbs_hard_start_xmit to do with commands.                        *)
LEMMA TxAgrees == PsInv /\ TxStep => PsInv'
<1> SUFFICES ASSUME PsInv, TxStep PROVE PsInv'
  OBVIOUS
<1>1. UNCHANGED txElsewhere
  BY DEF TxStep, XmitDropped, XmitBusy, XmitBuild, XmitLineUp
<1>2. UNCHANGED <<mainVars, psElsewhere, cur_cmd, node>>
  BY <1>1 DEF txElsewhere, psElsewhere, copyVars, timeVars, fwVars, psVars, nodeVars, curVars
<1> QED
  BY <1>2, FlightUntouched, PsKept DEF SamePlace, mainVars

(* The turns of the loop that hand nothing over and complete nothing: they *)
(* may queue a command, or find out that the firmware sleeps or wakes.     *)
LEMMA LoopAgrees ==
    ASSUME TypeInv, OwnInv, PsInv,
           MainCheck \/ MainWakeUp \/ NoTimeout \/ ClearTimeout \/ NoMoreEvents
           \/ DeauthEvent \/ PsSleepEvent \/ PsAwakeEvent \/ OtherEvent
           \/ MainPreSleep \/ MainConfirmDelayed \/ MainConfirmSent
           \/ WakeFirmwareFirst \/ EnterPowerSave \/ NothingToExecute
    PROVE  PsInv'
<1> USE DEF Goto, mainVars, NextEvent, MayExecute
<1>1. main \notin ServesLabel /\ main' \notin ServesLabel
  <2>1. main_ret \notin ServesLabel
    BY DEF TypeInv, TypeOK, MainTypes, ServesLabel, ServingLabel
  <2> USE DEF ServesLabel, ServingLabel
  <2>2. CASE MainCheck \/ MainWakeUp \/ NoTimeout \/ ClearTimeout \/ NoMoreEvents
    BY <2>2 DEF MainCheck, MainWakeUp, NoTimeout, ClearTimeout, NoMoreEvents
  <2>3. CASE DeauthEvent \/ PsSleepEvent \/ PsAwakeEvent \/ OtherEvent
    BY <2>3 DEF DeauthEvent, PsSleepEvent, PsAwakeEvent, OtherEvent
  <2>4. CASE MainPreSleep \/ MainConfirmDelayed \/ MainConfirmSent
    BY <2>1, <2>4 DEF MainPreSleep, MainConfirmDelayed, MainConfirmSent
  <2>5. CASE WakeFirmwareFirst \/ EnterPowerSave \/ NothingToExecute
    BY <2>5 DEF WakeFirmwareFirst, EnterPowerSave, NothingToExecute
  <2> QED
    BY <2>2, <2>3, <2>4, <2>5
<1>2. /\ UNCHANGED <<copyVars, timer, timer_running, fw_ack, fw_ps, cur_cmd>>
      /\ cmd_timed_out' = cmd_timed_out \/ cmd_timed_out' = FALSE
      /\ dnld_sent' => dnld_sent
      /\ psstate' = "FULL_POWER" => psstate = "FULL_POWER"
  <2> USE DEF copyVars, timeVars, curVars, respVars, fwVars, psVars
  <2>2. CASE MainCheck \/ MainWakeUp \/ NoTimeout \/ ClearTimeout \/ NoMoreEvents
    BY <2>2 DEF MainCheck, MainWakeUp, NoTimeout, ClearTimeout, NoMoreEvents
  <2>3. CASE DeauthEvent \/ PsSleepEvent \/ PsAwakeEvent \/ OtherEvent
    BY <2>3 DEF DeauthEvent, PsSleepEvent, PsAwakeEvent, OtherEvent
  <2>4. CASE MainPreSleep \/ MainConfirmDelayed \/ MainConfirmSent
    BY <2>4 DEF MainPreSleep, MainConfirmDelayed, MainConfirmSent
  <2>5. CASE WakeFirmwareFirst \/ EnterPowerSave \/ NothingToExecute
    BY <2>5 DEF WakeFirmwareFirst, EnterPowerSave, NothingToExecute
  <2> QED
    BY <2>2, <2>3, <2>4, <2>5
<1>3. SameFlight
  <2>1. \/ UNCHANGED nodeVars
        \/ PrepareNoWait("EXIT_PS") \/ PrepareNoWait("ENTER_PS")
    <3>2. CASE MainCheck \/ MainWakeUp \/ NoTimeout \/ ClearTimeout \/ NoMoreEvents
      BY <3>2 DEF MainCheck, MainWakeUp, NoTimeout, ClearTimeout, NoMoreEvents
    <3>3. CASE DeauthEvent \/ PsSleepEvent \/ PsAwakeEvent \/ OtherEvent
      BY <3>3 DEF DeauthEvent, PsSleepEvent, PsAwakeEvent, OtherEvent, Disconnected
    <3>4. CASE MainPreSleep \/ MainConfirmDelayed \/ MainConfirmSent
      BY <3>4 DEF MainPreSleep, MainConfirmDelayed, MainConfirmSent
    <3>5. CASE WakeFirmwareFirst \/ EnterPowerSave \/ NothingToExecute
      BY <3>5 DEF WakeFirmwareFirst, EnterPowerSave, NothingToExecute
    <3> QED
      BY <3>2, <3>3, <3>4, <3>5
  <2> QED
    BY <1>2, <2>1, PreparedElsewhere
<1>4. OneCopy'
  BY <1>1, <1>2, <1>3, OneCopyKept DEF PsInv, SamePlace
<1>5. TimerTrue'
  <2>1. NoCopy' = NoCopy
    BY <1>2 DEF NoCopy, copyVars, respVars, OnTheBus, Answer
  <2>2. main' \notin ServingLabel
    BY <1>1 DEF ServesLabel
  <2> QED
    BY <1>2, <2>1, <2>2 DEF PsInv, TimerTrue, copyVars
<1>6. Agreement'
  BY <1>1, <1>2, AgreementKept DEF PsInv, SamePlace, copyVars
<1> QED
  BY <1>4, <1>5, <1>6 DEF PsInv

(* Confirmations and data packets are no commands.                         *)
LEMMA PacketAgrees ==
    ASSUME TypeInv, PsInv, HostAwakeEvent \/ MainConfirm \/ MainTx
    PROVE  PsInv'
<1> USE DEF Goto, mainVars, NextEvent
<1>1. main \notin ServesLabel /\ main' \notin ServesLabel
  BY DEF HostAwakeEvent, MainConfirm, MainTx, ServesLabel, ServingLabel, TypeInv,
         TypeOK, MainTypes
<1>2. /\ UNCHANGED <<respVars, fw_cmds, timer, timer_running, cmd_timed_out,
                     fw_ack, fw_ps, psstate, cur_cmd, node>>
  BY DEF HostAwakeEvent, MainConfirm, MainTx, timeVars, curVars, nodeVars, fwVars, psVars
<1>3. CASE UNCHANGED packets /\ (dnld_sent' => dnld_sent)
  <2>1. UNCHANGED copyVars
    BY <1>2, <1>3 DEF copyVars
  <2> QED
    BY <1>1, <1>2, <1>3, <2>1, FlightUntouched, OneCopyKept, TimerKept, AgreementKept
    DEF PsInv, SamePlace
<1>4. CASE \E k \in {"data", "confirm_sleep", "confirm_wake"} : HostToCard([kind |-> k])
  <2>1. PICK p \in Packet : p.kind # "cmd" /\ packets' = Append(packets, p)
    BY <1>4, PacketTypes DEF HostToCard
  <2>2. /\ OnTheBus' = OnTheBus /\ packets' # <<>>
        /\ \A i \in OnTheBus : packets'[i] = packets[i]
    BY <2>1, BusAppended
  <2>3. Answer' = Answer /\ NoCopy' = NoCopy /\ InFlightMsg' = InFlightMsg
    BY <1>2, <2>2 DEF Answer, NoCopy, InFlightMsg, respVars
  <2>4. OneCopy'
    BY <1>1, <1>2, <2>2, <2>3 DEF PsInv, OneCopy, respVars, ServesLabel
  <2>5. TimerTrue'
    BY <1>1, <1>2, <2>2, <2>3 DEF PsInv, TimerTrue, ServesLabel
  <2>6. Agreement'
    BY <1>1, <1>2, AgreementKept DEF PsInv, SamePlace
  <2> QED
    BY <2>4, <2>5, <2>6 DEF PsInv
<1>5. \/ UNCHANGED packets /\ (dnld_sent' => dnld_sent)
      \/ \E k \in {"data", "confirm_sleep", "confirm_wake"} : HostToCard([kind |-> k])
  BY DEF HostAwakeEvent, MainConfirm, MainTx, HostToCardFails
<1> QED
  BY <1>3, <1>4, <1>5

(* The main thread turns to an answer, or finds that there is none.        *)
LEMMA RunAgrees ==
    ASSUME OwnInv, PsInv, MainRun \/ MainExit
    PROVE  PsInv'
<1>1. MainRun /\ ~surpriseremoved
  BY DEF OwnInv, Plugged, MainExit, kthread_should_stop
<1>2. /\ UNCHANGED <<psElsewhere, cur_cmd, node>> /\ main = "run"
      /\ \/ main' = "resp" /\ main_idx' = resp_idx /\ Answer # NoResp
         \/ main' = "timeout"
  BY <1>1 DEF MainRun, psElsewhere, copyVars, timeVars, curVars, nodeVars, fwVars,
              psVars, Answer
<1>3. SameFlight
  BY <1>2, FlightUntouched
<1>4. CASE main' = "timeout"
  BY <1>2, <1>3, <1>4, PsKept DEF SamePlace, ServesLabel, ServingLabel
<1>5. CASE main' = "resp" /\ main_idx' = resp_idx /\ Answer # NoResp
  <2>1. Answer' = Answer /\ OnTheBus' = OnTheBus /\ InFlightMsg' = InFlightMsg
        /\ NoCopy' = NoCopy
    BY <1>2 DEF Answer, OnTheBus, InFlightMsg, NoCopy, psElsewhere, copyVars, respVars
  <2>2. OneCopy'
    BY <1>2, <1>5, <2>1 DEF PsInv, OneCopy, psElsewhere, copyVars, respVars
  <2>3. TimerTrue'
    BY <1>2, <1>5, <2>1 DEF PsInv, TimerTrue, psElsewhere, copyVars, ServingLabel
  <2>4. Agreement'
    BY <1>2, <1>5, <2>1 DEF PsInv, Agreement, psElsewhere
  <2> QED
    BY <2>2, <2>3, <2>4 DEF PsInv
<1> QED
  BY <1>2, <1>4, <1>5

(* What is known while an answer is served: there is no other copy, and    *)
(* the timer has not expired.                                              *)
LEMMA ServedAlone ==
    ASSUME PsInv, main \in ServesLabel
    PROVE  /\ OnTheBus = {} /\ fw_cmds = <<>>
           /\ Answer # NoResp /\ resp[main_idx] = Answer /\ main_idx = resp_idx
           /\ ~timer_running /\ ~cmd_timed_out
           /\ main # "consume" => cur_cmd # NoNode /\ Answer.cmd = InFlightMsg.cmd
                                  /\ Answer.seq = InFlightMsg.seq
  BY DEF PsInv, OneCopy, TimerTrue, NoCopy, Answer

(* A completion while an answer is served: nothing is in flight then.      *)
LEMMA CompletedAgrees ==
    ASSUME PsInv, main \in ServesLabel, cur_cmd' = NoNode, main' = "consume",
           UNCHANGED <<packets, fw_cmds, respVars, main_idx, timer_running, dnld_sent, fw_ack>>,
           cmd_timed_out' => cmd_timed_out, ~timer', Agreement'
    PROVE  PsInv'
<1>1. Answer' = Answer /\ OnTheBus' = OnTheBus
  BY DEF Answer, OnTheBus, respVars
<1>2. OneCopy'
  BY <1>1, ServedAlone DEF PsInv, OneCopy, respVars
<1>3. TimerTrue'
  BY ServedAlone DEF PsInv, TimerTrue, ServingLabel
<1> QED
  BY <1>2, <1>3 DEF PsInv

(* A step while an answer is served that completes nothing.                *)
LEMMA StillServed ==
    ASSUME PsInv, SameFlight, main \in ServesLabel \ {"consume"},
           main' \in ServesLabel,
           UNCHANGED <<packets, fw_cmds, respVars, main_idx, timer_running, dnld_sent, fw_ack>>,
           cmd_timed_out' => cmd_timed_out, timer' => timer /\ main' \notin ServingLabel,
           Agreement'
    PROVE  PsInv'
<1>1. Answer' = Answer /\ OnTheBus' = OnTheBus
  BY DEF Answer, OnTheBus, respVars
<1>2. OneCopy'
  BY <1>1, ServedAlone DEF PsInv, OneCopy, respVars, SameFlight
<1>3. TimerTrue'
  BY ServedAlone DEF PsInv, TimerTrue, SameFlight
<1> QED
  BY <1>2, <1>3 DEF PsInv

(* An answer that agrees with the command in flight is not dropped, unless *)
(* it is a DEFER.                                                          *)
LEMMA DroppedAgrees ==
    ASSUME PsInv, DropResponse
    PROVE  PsInv'
<1>1. /\ main = "resp" /\ main' = "consume" /\ Unexpected(resp[main_idx])
      /\ UNCHANGED <<psElsewhere, cur_cmd, node, main_idx>>
  BY DEF DropResponse, Goto, psElsewhere, copyVars, timeVars, curVars, nodeVars,
         fwVars, psVars
<1>2. Answer.result = "defer"
  BY <1>1, ServedAlone DEF Unexpected, InFlightMsg, ServesLabel
<1>3. Answer' = Answer
  BY <1>1 DEF Answer, psElsewhere, copyVars, respVars
<1>4. Agreement'
  BY <1>1, <1>2, <1>3 DEF PsInv, Agreement, Entered, psElsewhere
<1> QED
  BY <1>1, <1>4, StillServed, FlightUntouched
  DEF ServesLabel, ServingLabel, psElsewhere, copyVars

(* PS_MODE replies set psstate to what they say of the firmware.           *)
LEMMA PsReplyAgrees ==
    ASSUME PsInv, PsOrErrorResponse
    PROVE  PsInv'
<1>1. /\ main = "resp" /\ psstate' = PsAfter(Answer)
      /\ UNCHANGED <<packets, fw_cmds, respVars, main_idx, timer_running, dnld_sent,
                     fw_ack, fw_ps>>
      /\ cmd_timed_out' = FALSE /\ timer' = FALSE
  BY ServedAlone DEF PsOrErrorResponse, AnswerArrived, EndRetries, Goto, fwVars,
     ServesLabel
<1>2. Answer' = Answer
  BY <1>1 DEF Answer, respVars
<1>3. CASE main' = "resp_wakeup" /\ Entered(Answer) /\ UNCHANGED <<node, cur_cmd>>
  <2>1. Agreement'
    BY <1>1, <1>2, <1>3 DEF PsInv, Agreement, PsAfter, Entered, Exited
  <2> QED
    BY <1>1, <1>3, <2>1, StillServed, FlightUntouched DEF ServesLabel, ServingLabel
<1>4. CASE main' = "consume" /\ cur_cmd' = NoNode
  <2>1. Agreement'
    BY <1>1, <1>2, <1>4 DEF PsInv, Agreement, PsAfter, Entered, Exited
  <2> QED
    BY <1>1, <1>4, <2>1, CompletedAgrees DEF ServesLabel
<1> QED
  BY <1>1, <1>3, <1>4, ServedAlone
  DEF PsOrErrorResponse, Goto, Complete, nodeVars, ServesLabel

(* Other answers, and the callbacks they lead to.                          *)
LEMMA GoodReplyAgrees ==
    ASSUME TypeInv, OwnInv, PsInv, GoodResponse \/ MainRespWakeup \/ MainCallback
    PROVE  PsInv'
<1>1. /\ main \in ServesLabel \ {"consume"} /\ main' \in ServingLabel
      /\ UNCHANGED <<packets, fw_cmds, respVars, main_idx, timer_running, dnld_sent,
                     fw_ack, fw_ps, psstate, cur_cmd>>
      /\ cmd_timed_out' => cmd_timed_out
  BY DEF GoodResponse, MainRespWakeup, MainCallback, AnswerArrived, EndRetries, Goto,
         fwVars, timeVars, psVars, ServesLabel, ServingLabel
<1>2. ~timer'
  BY DEF PsInv, TimerTrue, GoodResponse, MainRespWakeup, MainCallback, AnswerArrived,
         EndRetries, timeVars, ServingLabel
<1>3. SameFlight
  <2>1. UNCHANGED nodeVars \/ PrepareNoWait("EXIT_PS")
    BY DEF GoodResponse, MainRespWakeup, MainCallback, Associated, Disconnected
  <2> QED
    BY <1>1, <2>1, PreparedElsewhere
<1>4. psstate = "FULL_POWER" => fw_ps = "off"
  <2>1. CASE GoodResponse
    <3>1. ~Entered(Answer)
      BY <1>1, <2>1, ServedAlone DEF GoodResponse, Entered, PsCommand
    <3> QED
      BY <3>1 DEF PsInv, Agreement
  <2>2. CASE MainRespWakeup \/ MainCallback
    BY <2>2 DEF MainRespWakeup, MainCallback, PsInv, Agreement, ServesLabel, ServingLabel
  <2> QED
    BY <2>1, <2>2
<1>5. Agreement'
  <2>1. Answer' = Answer /\ main # "consume"
    BY <1>1 DEF Answer, respVars
  <2> QED
    BY <1>1, <1>4, <2>1 DEF PsInv, Agreement, Exited
<1> QED
  BY <1>1, <1>2, <1>3, <1>5, StillServed DEF ServesLabel

(* The command completes; its answer is still in the buffer.               *)
LEMMA FinishAgrees ==
    ASSUME PsInv, MainFinish
    PROVE  PsInv'
<1>1. /\ main = "finish" /\ main' = "consume" /\ cur_cmd' = NoNode
      /\ UNCHANGED <<packets, fw_cmds, respVars, main_idx, timer_running, dnld_sent,
                     fw_ack, fw_ps, psstate, cmd_timed_out, timer>>
  BY DEF MainFinish, Goto, Complete, fwVars, timeVars, psVars
<1>2. ~timer' /\ (psstate = "FULL_POWER" => fw_ps = "off")
  BY <1>1 DEF PsInv, TimerTrue, Agreement, ServesLabel, ServingLabel
<1>3. Agreement'
  BY <1>1, <1>2 DEF Agreement
<1> QED
  BY <1>1, <1>2, <1>3, CompletedAgrees DEF ServesLabel, ServingLabel

(* The answer has been served: nothing of it is left.                      *)
LEMMA ConsumeAgrees ==
    ASSUME TypeInv, PsInv, MainConsume
    PROVE  PsInv'
<1>1. /\ main = "consume" /\ main' = "timeout" /\ resp' = [resp EXCEPT ![main_idx] = NoResp]
      /\ UNCHANGED <<packets, fw_cmds, resp_idx, timer_running, dnld_sent, fw_ack, fw_ps,
                     psstate, cmd_timed_out, timer, cur_cmd, node>>
  BY DEF MainConsume, fwVars, timeVars, psVars, curVars, nodeVars
<1>2. /\ OnTheBus' = {} /\ fw_cmds' = <<>> /\ main_idx = resp_idx
      /\ ~timer_running /\ ~cmd_timed_out
  BY <1>1, ServedAlone DEF ServesLabel, OnTheBus
<1>3. Answer' = NoResp /\ resp'[1 - resp_idx] = NoResp
  <2>1. resp \in [{0, 1} -> Response] /\ resp_idx \in {0, 1}
    BY DEF TypeInv, TypeOK, ReplyTypes
  <2> QED
    BY <1>1, <1>2, <2>1 DEF Answer, PsInv, OneCopy
<1>4. psstate = "FULL_POWER" => fw_ps = "off"
  BY <1>1 DEF PsInv, Agreement, ServesLabel
<1>5. OneCopy'
  BY <1>1, <1>2, <1>3 DEF PsInv, OneCopy, ServesLabel, ServingLabel
<1>6. TimerTrue'
  BY <1>1, <1>2 DEF PsInv, TimerTrue, ServingLabel
<1>7. Agreement'
  BY <1>1, <1>3, <1>4 DEF Agreement, Exited, NoResp
<1> QED
  BY <1>5, <1>6, <1>7 DEF PsInv

(* A timeout: no copy is left, so that what is said of the command in      *)
(* flight need not be said of the next.                                    *)
LEMMA TimeoutAgrees ==
    ASSUME PsInv, GiveUp \/ Requeue
    PROVE  PsInv'
<1>1. /\ main = "timeout" /\ main' = "events" /\ cur_cmd' = NoNode /\ cmd_timed_out
      /\ UNCHANGED <<packets, fw_cmds, respVars, timer_running, fw_ack, fw_ps, psstate, timer>>
      /\ cmd_timed_out' = FALSE /\ (dnld_sent' => dnld_sent)
  BY DEF GiveUp, Requeue, TimedOut, Goto, Complete, fwVars, psVars
<1>2. NoCopy /\ ~timer /\ ~timer_running
  BY <1>1 DEF PsInv, TimerTrue
<1>3. OnTheBus' = {} /\ fw_cmds' = <<>> /\ Answer' = NoResp
  BY <1>1, <1>2 DEF NoCopy, OnTheBus, Answer, respVars
<1>4. OneCopy'
  BY <1>1, <1>3 DEF PsInv, OneCopy, respVars, ServesLabel, ServingLabel
<1>5. TimerTrue'
  BY <1>1, <1>2 DEF PsInv, TimerTrue, ServingLabel
<1>6. Agreement'
  BY <1>1, <1>2, <1>3 DEF PsInv, Agreement, NoCopy, Entered, Exited, NoResp
<1> QED
  BY <1>4, <1>5, <1>6 DEF PsInv

(* With nothing in flight there is no copy of anything.                    *)
LEMMA NothingInFlight ==
    ASSUME PsInv, cur_cmd = NoNode, main # "consume"
    PROVE  NoCopy /\ ~timer /\ ~timer_running /\ ~cmd_timed_out
           /\ main \notin ServesLabel
  BY DEF PsInv, OneCopy, TimerTrue, NoCopy, ServesLabel, ServingLabel

(* lbs_submit_command makes the first copy.                                *)
LEMMA SubmitAgrees ==
    ASSUME TypeInv, PsInv, SubmitNext
    PROVE  PsInv'
<1> DEFINE n == Head(cmdpendingq)
<1>1. /\ cur_cmd = NoNode /\ main = "exec" /\ main' = "tx" /\ cur_cmd' = n
      /\ node' = [node EXCEPT ![n].sent = @ + 1] /\ timer' = TRUE
      /\ HostToCard(CmdPacket(n)) \/ HostToCardFails
      /\ UNCHANGED <<fw_cmds, respVars, timer_running, fw_ack, fw_ps, psstate,
                     cmd_timed_out, main_idx>>
  BY DEF SubmitNext, MayExecute, HandOver, Goto, fwVars, psVars
<1>2. n \in Nodes /\ NoNode \notin Nodes /\ node \in [Nodes -> NodeRec]
  BY NodesAssumption, HeadTailProperties DEF SubmitNext, TypeInv, TypeOK, QueueTypes
<1>3. NoCopy /\ ~timer_running /\ ~cmd_timed_out
  BY <1>1, NothingInFlight
<1> HIDE DEF n
<1>4. node'[n].sent > 0 /\ InFlightMsg' = CmdPacket(n).msg
  <2>1. node[n].sent \in Nat
    BY <1>2 DEF NodeRec
  <2>2. node'[n] = [node[n] EXCEPT !.sent = @ + 1]
    BY <1>1, <1>2
  <2>3. node[n] \in NodeRec
    BY <1>2
  <2> QED
    BY <1>1, <2>1, <2>2, <2>3 DEF InFlightMsg, CmdPacket, NodeRec
<1>5. Answer' = NoResp /\ fw_cmds' = <<>> /\ resp'[1 - resp_idx'] = NoResp
  BY <1>1, <1>3 DEF NoCopy, Answer, respVars, PsInv, OneCopy
<1>6. \A i \in OnTheBus' : packets'[i].msg = InFlightMsg' /\ \A j \in OnTheBus' : j = i
  <2>1. CASE HostToCardFails
    BY <1>3, <2>1 DEF HostToCardFails, NoCopy, OnTheBus
  <2>2. CASE HostToCard(CmdPacket(n))
    <3>1. CmdPacket(n) \in Packet /\ CmdPacket(n).kind = "cmd"
          /\ packets' = Append(packets, CmdPacket(n))
      BY <1>2, <2>2, PacketTypes DEF HostToCard, CmdPacket, TypeInv, TypeOK
    <3>2. OnTheBus' = {Len(packets) + 1} /\ packets'[Len(packets) + 1] = CmdPacket(n)
      BY <1>3, <3>1, BusAppended DEF NoCopy
    <3> QED
      BY <1>4, <3>2
  <2> QED
    BY <1>1, <2>1, <2>2
<1>7. OneCopy'
  BY <1>1, <1>2, <1>4, <1>5, <1>6 DEF OneCopy, ServesLabel, ServingLabel
<1>8. TimerTrue'
  <2>1. dnld_sent' => packets' # <<>> \/ fw_ack'
    <3>1. CASE HostToCardFails
      BY <1>1, <3>1 DEF HostToCardFails, PsInv, TimerTrue
    <3>2. CASE HostToCard(CmdPacket(n))
      BY <1>2, <3>2, PacketTypes, BusAppended DEF HostToCard, TypeInv, TypeOK
    <3> QED
      BY <1>1, <3>1, <3>2
  <2> QED
    BY <1>1, <1>2, <1>3, <2>1 DEF TimerTrue, ServingLabel
<1>9. Agreement'
  BY <1>1, <1>3, <1>5 DEF PsInv, Agreement, NoCopy, Entered, Exited, NoResp
<1> QED
  BY <1>7, <1>8, <1>9 DEF PsInv

(* An ENTER_PS that is not needed completes without being sent.            *)
LEMMA IgnoreAgrees ==
    ASSUME PsInv, IgnoreEnterPs
    PROVE  PsInv'
<1>1. /\ UNCHANGED psElsewhere /\ cur_cmd' = cur_cmd /\ cur_cmd = NoNode
      /\ main = "exec" /\ main' = "tx"
  BY DEF IgnoreEnterPs, MayExecute, Complete, Goto, psElsewhere, copyVars, timeVars,
         fwVars, psVars
<1> QED
  BY <1>1, PsKept DEF SameFlight, SamePlace, ServesLabel, ServingLabel

(* The timer expires when nothing can come any more: the main thread       *)
(* sleeps, and would not if there were an answer.                          *)
LEMMA ExpiryAgrees ==
    ASSUME OwnInv, Asleep, NoLostWakeup, PsInv, Faults \subseteq {"memory"},
           TimerExpires
    PROVE  PsInv'
<1>1. /\ NoAnswerComes /\ timer /\ timer' = FALSE /\ timer_running' = TRUE
      /\ UNCHANGED <<copyVars, cmd_timed_out, dnld_sent, fw_ack, psstate, fw_ps,
                     cur_cmd, node, main, main_idx>>
  BY DEF TimerExpires, psElsewhere, copyVars, curVars, nodeVars, fwVars, psVars, mainVars
<1>2. Answer = NoResp
  <2>1. ShouldSleep /\ ~surpriseremoved
    BY <1>1 DEF NoAnswerComes, NoLostWakeup, OwnInv, Plugged
  <2>2. CASE psstate = "SLEEP"
    BY <2>2 DEF Asleep, Answer
  <2>3. CASE NothingToDo
    BY <1>1, <2>3 DEF NothingToDo, NoAnswerComes, PsInv, TimerTrue, Answer
  <2> QED
    BY <2>1, <2>2, <2>3 DEF ShouldSleep
<1>3. OnTheBus = {}
  <2>1. Len(packets) = 0
    BY <1>1, EmptySeq DEF NoAnswerComes
  <2> QED
    BY <2>1 DEF OnTheBus
<1>4. NoCopy /\ NoCopy' = NoCopy
  BY <1>1, <1>2, <1>3 DEF NoAnswerComes, NoCopy, OnTheBus, Answer, psElsewhere, copyVars,
     respVars
<1>5. OneCopy'
  BY <1>1, FlightUntouched, OneCopyKept DEF PsInv, SamePlace, psElsewhere
<1>6. TimerTrue'
  BY <1>1, <1>4 DEF PsInv, TimerTrue, psElsewhere, copyVars
<1>7. Agreement'
  BY <1>1, AgreementKept DEF PsInv, SamePlace, psElsewhere, copyVars
<1> QED
  BY <1>5, <1>6, <1>7 DEF PsInv

(* command_timer_fn finds the command in flight that has expired.          *)
LEMMA HandlerAgrees ==
    ASSUME PsInv, TimerHandler
    PROVE  PsInv'
<1>1. /\ timer_running /\ timer_running' = FALSE /\ cur_cmd # NoNode
      /\ UNCHANGED <<copyVars, timer, dnld_sent, fw_ack, psstate, fw_ps,
                     cur_cmd, node, main, main_idx>>
  BY DEF TimerHandler, PsInv, TimerTrue, copyVars, curVars, nodeVars, fwVars, psVars,
         mainVars
<1>2. NoCopy' = NoCopy
  BY <1>1 DEF NoCopy, OnTheBus, Answer, copyVars, respVars
<1>3. OneCopy'
  BY <1>1, FlightUntouched, OneCopyKept DEF PsInv, SamePlace
<1>4. TimerTrue'
  BY <1>1, <1>2 DEF PsInv, TimerTrue, copyVars
<1>5. Agreement'
  BY <1>1, AgreementKept DEF PsInv, SamePlace, copyVars
<1> QED
  BY <1>3, <1>4, <1>5 DEF PsInv

(* The worker moves the copy from the bus into the firmware, ...           *)
LEMMA WriteAgrees ==
    ASSUME TypeInv, PsInv, WritePacket
    PROVE  PsInv'
<1> DEFINE p == Head(packets)
<1>1. /\ packets # <<>> /\ packets' = Tail(packets) /\ fw_ack' = TRUE
      /\ UNCHANGED <<respVars, timer, timer_running, cmd_timed_out, dnld_sent, psstate,
                     cur_cmd, node, main, main_idx>>
      /\ fw_cmds' = IF p.kind = "cmd" THEN Append(fw_cmds, p.msg) ELSE fw_cmds
      /\ fw_ps' = "off" <=> fw_ps = "off"
  BY DEF WritePacket, hostElsewhere, timeVars, curVars, nodeVars, mainVars
<1>2. Answer' = Answer /\ InFlightMsg' = InFlightMsg
  BY <1>1 DEF Answer, InFlightMsg, respVars
<1>3. /\ p.kind = "cmd" => 1 \in OnTheBus /\ p = packets[1]
      /\ \A i \in OnTheBus' : i + 1 \in OnTheBus /\ packets'[i] = packets[i + 1] /\ i # 0
  BY <1>1, BusTaken
<1> HIDE DEF p
<1>4. \A i \in OnTheBus' : i \in Int
  BY DEF OnTheBus
<1>5. Agreement'
  BY <1>1, AgreementKept DEF PsInv, SamePlace
<1>6. CASE p.kind = "cmd"
  <2>1. /\ OnTheBus = {1} /\ fw_cmds = <<>> /\ Answer = NoResp /\ cur_cmd # NoNode
        /\ p.msg = InFlightMsg
    BY <1>3, <1>6 DEF PsInv, OneCopy
  <2>2. OnTheBus' = {}
    BY <1>3, <1>4, <2>1
  <2>3. fw_cmds' = <<InFlightMsg>>
    BY <1>1, <1>6, <2>1
  <2>4. OneCopy'
    BY <1>1, <1>2, <2>1, <2>2, <2>3 DEF PsInv, OneCopy, respVars
  <2>5. ~timer_running /\ ~cmd_timed_out
    BY <2>1 DEF PsInv, TimerTrue, NoCopy
  <2>6. TimerTrue'
    BY <1>1, <2>5 DEF PsInv, TimerTrue
  <2> QED
    BY <1>5, <2>4, <2>6 DEF PsInv
<1>7. CASE p.kind # "cmd"
  <2>1. \A i \in OnTheBus' : /\ i + 1 \in OnTheBus /\ packets'[i] = packets[i + 1]
                             /\ \A j \in OnTheBus' : j = i
    BY <1>3, <1>4 DEF PsInv, OneCopy
  <2>2. fw_cmds' = fw_cmds
    BY <1>1, <1>7
  <2>3. OneCopy'
    BY <1>1, <1>2, <2>1, <2>2 DEF PsInv, OneCopy, respVars
  <2>4. NoCopy => NoCopy'
    BY <1>2, <2>1, <2>2 DEF NoCopy
  <2>5. TimerTrue'
    BY <1>1, <2>4 DEF PsInv, TimerTrue
  <2> QED
    BY <1>5, <2>3, <2>5 DEF PsInv
<1> QED
  BY <1>6, <1>7

(* ... the interrupt for it changes nothing, ...                           *)
LEMMA DownloadAgrees ==
    ASSUME PsInv, DownloadInterrupt
    PROVE  PsInv'
<1>1. /\ dnld_sent' = FALSE
      /\ UNCHANGED <<copyVars, timer, timer_running, cmd_timed_out, psstate, fw_ps,
                     cur_cmd, node, main, main_idx>>
  BY DEF DownloadInterrupt, hostElsewhere, copyVars, timeVars, curVars, nodeVars, mainVars
<1> QED
  BY <1>1, FlightUntouched, OneCopyKept, TimerKept, AgreementKept
  DEF PsInv, SamePlace, copyVars

(* ... and if_sdio_handle_cmd turns it into the answer.  The buffer it     *)
(* uses is empty.                                                          *)
LEMMA AnswerAgrees ==
    ASSUME TypeInv, PsInv, ResponseInterrupt
    PROVE  PsInv' /\ bug' = bug
<1> DEFINE m == Head(fw_cmds)
<1>1. /\ fw_cmds = <<InFlightMsg>> /\ cur_cmd # NoNode /\ Answer = NoResp
      /\ OnTheBus = {} /\ main \notin ServesLabel
  BY DEF ResponseInterrupt, PsInv, OneCopy
<1>2. m = InFlightMsg /\ Tail(fw_cmds) = <<>>
  BY <1>1
<1>3. /\ fw_cmds' = <<>> /\ psstate' = Awoken /\ bug' = bug /\ resp_idx' = 1 - resp_idx
      /\ UNCHANGED <<packets, timer, timer_running, cmd_timed_out, dnld_sent, fw_ack,
                     cur_cmd, node, main, main_idx>>
  BY <1>2 DEF ResponseInterrupt, NotifyResponse, PsInv, OneCopy, hostElsewhere, timeVars,
     curVars, nodeVars, mainVars
<1>4. PICK r \in Results :
          /\ resp' = [resp EXCEPT ![1 - resp_idx] = [cmd |-> m.cmd, seq |-> m.seq,
                                                     rid |-> m.rid, result |-> r]]
          /\ fw_ps' = FwPsAfter(m, r)
  BY DEF ResponseInterrupt, PsInv, OneCopy
<1>5. /\ Answer' = [cmd |-> m.cmd, seq |-> m.seq, rid |-> m.rid, result |-> r]
      /\ resp'[1 - resp_idx'] = NoResp
  <2>1. resp \in [{0, 1} -> Response] /\ resp_idx \in {0, 1}
    BY DEF TypeInv, TypeOK, ReplyTypes
  <2> QED
    BY <1>1, <1>3, <1>4, <2>1 DEF Answer
<1> HIDE DEF m
<1>6. InFlightMsg' = InFlightMsg /\ OnTheBus' = OnTheBus
  BY <1>3 DEF InFlightMsg, OnTheBus
<1>7. Answer'.cmd = InFlightMsg'.cmd /\ Answer'.seq = InFlightMsg'.seq
      /\ Answer'.result = r /\ Answer'.cmd = m.cmd
  BY <1>2, <1>5, <1>6
<1>8. OneCopy'
  BY <1>1, <1>3, <1>5, <1>6, <1>7 DEF PsInv, OneCopy
<1>9. TimerTrue'
  <2>1. ~timer_running /\ ~cmd_timed_out
    BY <1>1 DEF PsInv, TimerTrue, NoCopy
  <2> QED
    BY <1>3, <2>1 DEF PsInv, TimerTrue
<1>10. Agreement'
  <2>1. psstate = "FULL_POWER" => fw_ps = "off"
    BY <1>1 DEF PsInv, Agreement, Entered, NoResp
  <2>2. psstate' = "FULL_POWER" => psstate = "FULL_POWER"
    BY <1>3 DEF Awoken
  <2> QED
    BY <1>1, <1>3, <1>4, <1>7, <2>1, <2>2 DEF Agreement, FwPsAfter, Entered, Exited
<1> QED
  BY <1>3, <1>8, <1>9, <1>10 DEF PsInv

(* Events say nothing new of the firmware's power save.                    *)
LEMMA EventAgrees ==
    ASSUME PsInv, EventInterrupt
    PROVE  PsInv'
<1>1. /\ UNCHANGED <<copyVars, timer, timer_running, cmd_timed_out, dnld_sent, fw_ack,
                     cur_cmd, node, main, main_idx>>
      /\ psstate' = "FULL_POWER" => psstate = "FULL_POWER"
      /\ fw_ps' = "off" <=> fw_ps = "off"
  BY DEF EventInterrupt, Raises, Awoken, hostElsewhere, copyVars, timeVars, curVars,
         nodeVars, mainVars
<1> QED
  BY <1>1, FlightUntouched, OneCopyKept, TimerKept, AgreementKept
  DEF PsInv, SamePlace, copyVars

(* The main thread runs into no BUG_ON.                                    *)
LEMMA MainNoBug == MainStep => bug' = bug
<1> SUFFICES ASSUME MainStep PROVE bug' = bug
  OBVIOUS
<1> USE DEF fwVars, NextEvent
<1>1. CASE MainCheck \/ MainWakeUp \/ MainExit \/ MainRun \/ DropResponse
           \/ PsOrErrorResponse \/ MainRespWakeup \/ GoodResponse \/ MainCallback
           \/ MainFinish \/ MainConsume
  BY <1>1 DEF MainCheck, MainWakeUp, MainExit, MainRun, DropResponse,
     PsOrErrorResponse, MainRespWakeup, GoodResponse, MainCallback, MainFinish, MainConsume
<1>2. CASE GiveUp \/ Requeue \/ NoTimeout \/ ClearTimeout \/ NoMoreEvents
           \/ DeauthEvent \/ PsSleepEvent \/ PsAwakeEvent \/ HostAwakeEvent \/ OtherEvent
  BY <1>2 DEF GiveUp, Requeue, NoTimeout, ClearTimeout, NoMoreEvents, DeauthEvent,
     PsSleepEvent, PsAwakeEvent, HostAwakeEvent, OtherEvent
<1>3. CASE MainPreSleep \/ MainConfirmDelayed \/ MainConfirm \/ MainConfirmSent
           \/ SubmitNext \/ WakeFirmwareFirst \/ IgnoreEnterPs \/ EnterPowerSave
           \/ NothingToExecute \/ MainTx
  BY <1>3 DEF MainPreSleep, MainConfirmDelayed, MainConfirm, MainConfirmSent,
     SubmitNext, WakeFirmwareFirst, IgnoreEnterPs, EnterPowerSave, NothingToExecute, MainTx
<1> QED
  BY <1>1, <1>2, <1>3 DEF MainStep

(* Every step of the driver.                                               *)
LEMMA StepAgrees ==
    ASSUME Signals = {}, ~Hotplug, Faults \subseteq {"memory"},
           TypeInv, OwnInv, Asleep, NoLostWakeup, PsInv, [Next]_vars
    PROVE  PsInv' /\ bug' = bug
<1>1. CASE UNCHANGED vars
  <2>1. UNCHANGED <<mainVars, psElsewhere, cur_cmd, node, bug>>
    BY <1>1 DEF vars, psElsewhere, copyVars, timeVars, fwVars, psVars, nodeVars, curVars
  <2> QED
    BY <2>1, FlightUntouched, PsKept DEF SamePlace, mainVars
<1>2. CASE CardStep
  <2>1. ~DropPacket /\ ~LoseResponse
    BY DEF DropPacket, LoseResponse
  <2>2. CASE ResponseInterrupt
    BY <2>2, AnswerAgrees
  <2>3. CASE WritePacket \/ DownloadInterrupt \/ EventInterrupt
    BY <2>3, WriteAgrees, DownloadAgrees, EventAgrees
    DEF WritePacket, DownloadInterrupt, EventInterrupt
  <2> QED
    BY <1>2, <2>1, <2>2, <2>3 DEF CardStep
<1>3. CASE MainStep
  <2>1. PsInv'
    BY <1>3, LoopAgrees, PacketAgrees, RunAgrees, DroppedAgrees, PsReplyAgrees,
       GoodReplyAgrees, FinishAgrees, ConsumeAgrees, TimeoutAgrees, SubmitAgrees,
       IgnoreAgrees DEF MainStep
  <2>2. bug' = bug
    BY <1>3, MainNoBug
  <2> QED
    BY <2>1, <2>2
<1>4. ASSUME NEW c \in Callers, CallerStep(c) PROVE PsInv' /\ bug' = bug
  <2>1. bug' = bug
    BY <1>4 DEF CallerStep, Issue, SetPower, Queue, ReturnSync, EndWait, ReturnLegacy,
       elsewhere, fwVars
  <2> QED
    BY <1>4, <2>1, CallerAgrees
<1>5. CASE TxStep
  BY <1>5, TxAgrees
  DEF TxStep, XmitDropped, XmitBusy, XmitBuild, XmitLineUp, txElsewhere, fwVars
<1>6. CASE TimerExpires \/ TimerHandler
  BY <1>6, ExpiryAgrees, HandlerAgrees DEF TimerExpires, TimerHandler, fwVars
<1>7. CASE Running
  BY <1>2, <1>3, <1>4, <1>5, <1>6, <1>7, NoRemoval DEF Running
<1> QED
  BY <1>1, <1>7 DEF Next, AllReturned, Halted
-----------------------------------------------------------------------------
(* After lbs_start_card nothing is under way.                              *)
LEMMA InitAgrees == Init => PsInv
<1> SUFFICES ASSUME Init PROVE PsInv
  OBVIOUS
<1> USE DEF Init, PrivInit
<1>1. Answer = NoResp /\ resp[1 - resp_idx] = NoResp /\ OnTheBus = {}
  BY DEF Answer, OnTheBus
<1>2. OneCopy /\ TimerTrue
  BY <1>1 DEF OneCopy, TimerTrue, ServesLabel, ServingLabel
<1>3. Agreement
  BY <1>1 DEF Agreement, Exited, NoResp
<1> QED
  BY <1>2, <1>3 DEF PsInv

(* Driver and firmware agree on power save (PsAgreement), whatever the     *)
(* PS_MODE commands and their answers, events, retries and the timer do    *)
(* meanwhile (lbs_process_command_response, cmdresp.c; lbs_thread,         *)
(* main.c) - as long as packets and answers are neither lost nor later     *)
(* than the timer allows, no signal ends a wait, the card stays and        *)
(* lbs_host_to_card_done passes over no answer: a timer that expires       *)
(* beside an answer can have its handler blame the next command.           *)
THEOREM PowerSaveAgreed ==
    ASSUME Signals = {}, ~Hotplug, Faults \subseteq {"memory"}
    PROVE  Spec /\ [][AnswerNoticed]_vars => []PsAgreement
<1>1. PsInv => PsAgreement
  <2> SUFFICES ASSUME PsInv, psstate = "FULL_POWER", fw_ps # "off"
               PROVE  \E n \in Queued : node[n].cmd \in PsCommand /\ node[n].sent > 0
    BY DEF PsAgreement
  <2>1. Entered(Answer) /\ main # "consume"
    BY DEF PsInv, Agreement, ServesLabel
  <2>2. cur_cmd # NoNode /\ Answer.cmd = node[cur_cmd].cmd /\ node[cur_cmd].sent > 0
    BY <2>1 DEF PsInv, OneCopy, Entered, NoResp, InFlightMsg
  <2> QED
    BY <2>1, <2>2 DEF Queued, Entered, PsCommand
<1>2. Init => Asleep /\ NoLostWakeup
  BY DEF Init, PrivInit, Asleep, NoLostWakeup
<1>3. /\ TypeInv /\ OwnInv /\ [Next]_vars => OwnInv'
      /\ TypeInv /\ Asleep /\ [Next]_vars => Asleep'
      /\ TypeInv /\ NoLostWakeup /\ [Next]_vars /\ [AnswerNoticed]_vars => NoLostWakeup'
  BY StepOwns, StepAsleep, StepWakes
<1>4. TypeInv /\ OwnInv /\ Asleep /\ NoLostWakeup /\ PsInv /\ [Next]_vars => PsInv'
  BY StepAgrees
<1> QED
  BY InitTypes, StepTypes, InitOwns, InitAgrees, <1>1, <1>2, <1>3, <1>4, PTL DEF Spec

(* Under the same conditions if_sdio_handle_cmd never hits its BUG_ON: the *)
(* buffer it stores a response in is empty (ResponseBufferFree).  An       *)
(* answer later than the timer allows is enough to break this.             *)
THEOREM BufferIsFree ==
    ASSUME Signals = {}, ~Hotplug, Faults \subseteq {"memory"}
    PROVE  Spec /\ [][AnswerNoticed]_vars => []ResponseBufferFree
<1>1. Init => Asleep /\ NoLostWakeup /\ ResponseBufferFree
  BY DEF Init, PrivInit, Asleep, NoLostWakeup, ResponseBufferFree
<1>2. /\ TypeInv /\ OwnInv /\ [Next]_vars => OwnInv'
      /\ TypeInv /\ Asleep /\ [Next]_vars => Asleep'
      /\ TypeInv /\ NoLostWakeup /\ [Next]_vars /\ [AnswerNoticed]_vars => NoLostWakeup'
  BY StepOwns, StepAsleep, StepWakes
<1>3. TypeInv /\ OwnInv /\ Asleep /\ NoLostWakeup /\ PsInv /\ [Next]_vars
      => PsInv' /\ (ResponseBufferFree => ResponseBufferFree')
  BY StepAgrees DEF ResponseBufferFree
<1> QED
  BY InitTypes, StepTypes, InitOwns, InitAgrees, <1>1, <1>2, <1>3, PTL DEF Spec
=============================================================================
