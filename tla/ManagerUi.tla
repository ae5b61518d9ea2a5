------------------------------ MODULE ManagerUi ------------------------------
(***************************************************************************)
(* The user interface of the manager: use-manager-state.ts asks for a      *)
(* snapshot, binds its listeners for events meanwhile, merges the events   *)
(* and replaces everything by the answer to a command.  One command at a   *)
(* time is asked for: the buttons are off until it has answered.           *)
(*                                                                         *)
(* Answers and the events of each thread come in order; nothing is known   *)
(* of the order between them.                                              *)
(***************************************************************************)
EXTENDS DcsBiosListener

VARIABLES
    ui,            \* the status in the snapshot of the user interface
    mounted,       \* the first snapshot was asked for
    busyAction,    \* a command was asked for and has not answered
    newest,        \* History: the newest version that came
    stale          \* History: what came last was older than that

uiVars == <<ui, mounted, busyAction, newest, stale>>
vars == <<listenerVars, uiVars>>

TypeOK ==
    /\ ListenerTypeOK
    /\ StatusOK(ui)
    /\ {mounted, busyAction, stale} \subseteq BOOLEAN
    /\ newest \in Nat

Init ==
    /\ ListenerInit
    /\ ui = NewStatus
    /\ mounted = FALSE /\ busyAction = FALSE
    /\ newest = 0 /\ stale = FALSE

-----------------------------------------------------------------------------
\* refreshSnapshot of the effect; main answers when setup is done.
Mount ==
    /\ ~mounted
    /\ mounted' = TRUE
    /\ get_app_state
    /\ UNCHANGED <<ui, busyAction, newest, stale>>

\* bindListeners, while the question for the snapshot is on its way.
BindListeners ==
    /\ mounted /\ ~bound
    /\ bound' = TRUE
    /\ UNCHANGED <<config, status, handle, threadVars, copy, todo, memoryVars, events,
                   missed, responses, historyVars, boundVars, uiVars>>

Invoke ==
    /\ mounted /\ ~busyAction
    /\ busyAction' = TRUE
    /\ start_dcsbios \/ stop_dcsbios \/ update_dcsbios_config
    /\ UNCHANGED <<ui, mounted, newest, stale>>

Later(v) == IF v > newest THEN v ELSE newest

DeliverUnchanged ==
    UNCHANGED <<config, status, handle, threadVars, copy, todo, memoryVars,
                historyVars, boundVars, bound, missed, mounted>>

\* replaceSnapshot or setRuntimeError; the answer to a command ends the action.
Response ==
    /\ responses # <<>>
    /\ responses' = Tail(responses)
    /\ LET answer == Head(responses)
       IN  /\ busyAction' = (busyAction /\ answer.to # "respond")
           /\ IF answer.status = Failed THEN UNCHANGED <<ui, newest, stale>>
              ELSE /\ ui' = answer.status
                   /\ newest' = Later(answer.status.version)
                   /\ stale' = (answer.status.version < newest')
    /\ UNCHANGED events /\ DeliverUnchanged

\* mergeStatus.
Event ==
    /\ \E s \in Source :
        /\ events[s] # <<>>
        /\ events' = [events EXCEPT ![s] = Tail(@)]
        /\ ui' = Head(events[s])
    /\ newest' = Later(ui'.version)
    /\ stale' = (ui'.version < newest')
    /\ UNCHANGED <<responses, busyAction>> /\ DeliverUnchanged

Deliver == Response \/ Event

Next ==
    \/ (MainStep \/ ThreadStep) /\ UNCHANGED uiVars
    \/ Mount \/ BindListeners \/ Invoke \/ Deliver

(* The threads run, and what was sent arrives; DCS need not send, and the  *)
(* user need not do anything.  Every step of main takes something from     *)
(* todo, and every step of the thread ends elsewhere.                      *)
Spec ==
    /\ Init /\ [][Next]_vars
    /\ WF_<<todo, responses, events>>((MainStep /\ UNCHANGED uiVars) \/ Deliver)
    /\ WF_thread(ThreadStep /\ UNCHANGED uiVars)

-----------------------------------------------------------------------------
(* When all is at rest and all that was sent has come, the user sees the   *)
(* status as it is.  Two things break it: what came last had been          *)
(* overtaken on its way, by an event of the other thread or by an answer,  *)
(* or was told when nobody listened yet, after the first snapshot.         *)
UiShowsStatus ==
    /\ AtRest /\ responses = <<>> /\ \A s \in Source : events[s] = <<>>
    /\ mounted /\ ~stale /\ missed <= ui.version
    => ui = status

(* The buttons come back: every command answers, whatever the listener     *)
(* was doing.                                                              *)
ButtonsComeBack == busyAction ~> ~busyAction
=============================================================================
