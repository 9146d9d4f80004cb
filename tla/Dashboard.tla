-------------------------------- MODULE Dashboard --------------------------------
(***************************************************************************)
(* The browser: one view at a time is mounted (EquipmentStatus,            *)
(* DeviceManagement, AlertEpisodes, PlatformStatus or History).  Its effect *)
(* asks the backend, shows the answer and, except in History, asks again   *)
(* some seconds after each answer.  A click that changes what to ask makes *)
(* React render: the effect is cleaned up and started anew, a little later *)
(* than the click, and answers that come in between still belong to the old *)
(* effect.  What a cleaned-up effect has asked for may be answered at any  *)
(* time.  (Views that are mounted together share nothing.)                 *)
(***************************************************************************)
EXTENDS ReadModels

CONSTANTS
    Windows, \* the ranges a user can choose
    Budgets  \* move -> how often it may happen, in each of some scenarios

Moves == {"reading", "episode", "equipment", "devices", "alerts", "platform", "history",
          "refresh", "select", "change", "registry", "fault"}

VARIABLES
    view,      \* the mounted view, or "none"
    poll,      \* the request of its effect, <<>> while the timer runs
    stale,     \* requests of effects that were cleaned up
    shown,     \* the answer on the screen, or Nothing
    broken,    \* does the view show an error?
    rerender,  \* has a click changed what to ask since the effect started?
    selection, \* History: the devices to choose from, the device and the range
    change,    \* the registration or removal that was sent last
    removed,   \* history: devices whose removal this view has confirmed
    budget     \* what is left of a budget

screen == <<shown, broken>>
vars   == <<tables, view, poll, stale, screen, rerender, selection, change, removed, budget>>

Views  == {"equipment", "devices", "alerts", "platform", "history"}
Polled == Views \ {"history"}

Nothing == [op |-> "none"]
NoSelection == [options |-> {}]
NoChange == [kind |-> "none"]

Init ==
    /\ registered = Devices
    /\ rows = <<>> /\ episodes = <<>> /\ changes = 0
    /\ view = "none" /\ poll = <<>> /\ stale = {}
    /\ shown = Nothing /\ broken = FALSE /\ rerender = FALSE
    /\ selection = NoSelection
    /\ change = NoChange
    /\ removed = {}
    /\ budget \in Budgets

Spend(move) ==
    /\ budget[move] > 0
    /\ budget' = [budget EXCEPT ![move] = @ - 1]

Request ==
    <<IF view = "history" THEN Ask(view, selection.device, selection.window)
      ELSE Ask(view, "", <<>>)>>

-----------------------------------------------------------------------------
(* Effects                                                                 *)

\* The cleanup sets `stopped`, clears the timer and aborts: the request ends with an
\* error unless its answer is there already, and its continuation still runs.
Aborted(q) == IF q.at = "done" THEN q ELSE Refusing(q)
Cleanup == stale' = stale \cup {Aborted(poll[k]) : k \in DOMAIN poll}

\* A link to another page: unmount, mount.
Navigate(v) ==
    /\ v # view
    /\ Spend(v)
    /\ view' = v
    /\ Cleanup
    /\ selection' = NoSelection
    /\ poll' = <<Ask(IF v = "history" THEN "equipment" ELSE v, "", <<>>)>>
    /\ shown' = Nothing /\ broken' = FALSE
    /\ rerender' = FALSE
    /\ removed' = {}
    /\ change' = IF change = NoChange THEN change ELSE [change EXCEPT !.mounted = FALSE]
    /\ UNCHANGED tables

\* The effect of a new render; History clears its chart first.
Render ==
    /\ rerender
    /\ rerender' = FALSE
    /\ Cleanup
    /\ poll' = Request
    /\ IF view = "history" THEN shown' = Nothing /\ broken' = FALSE ELSE UNCHANGED screen
    /\ UNCHANGED <<tables, view, selection, change, removed, budget>>

\* The timer that `finally` has set.
Again ==
    /\ view \in Polled
    /\ poll = <<>>
    /\ poll' = Request
    /\ UNCHANGED <<tables, view, stale, screen, rerender, selection, change, removed, budget>>

\* Mutant: the timer is only set when the answer was good.
Answered_ThenRest ==
    /\ poll # <<>> /\ poll[1].at = "done" /\ poll[1].op = view
    /\ IF poll[1].error
       THEN broken' = TRUE /\ UNCHANGED <<shown, poll>>
       ELSE shown' = poll[1] /\ broken' = FALSE /\ poll' = <<>>
    /\ UNCHANGED <<tables, view, stale, rerender, selection, change, removed, budget>>

\* The live effect gets its answer, good or bad, and sets the timer.
Answered ==
    /\ poll # <<>> /\ poll[1].at = "done" /\ poll[1].op = view
    /\ IF poll[1].error
       THEN broken' = TRUE /\ UNCHANGED shown
       ELSE shown' = poll[1] /\ broken' = FALSE
    /\ poll' = <<>>
    /\ UNCHANGED <<tables, view, stale, rerender, selection, change, removed, budget>>

\* History has the devices and selects the first one.
Choose ==
    /\ view = "history" /\ selection = NoSelection
    /\ poll # <<>> /\ poll[1].at = "done"
    /\ poll' = <<>>
    /\ LET options == DOMAIN poll[1].answer IN
       IF poll[1].error \/ options = {}
       THEN broken' = poll[1].error /\ UNCHANGED <<selection, rerender>>
       ELSE /\ \E d \in options, w \in Windows :
                  selection' = [options |-> options, device |-> d, window |-> w]
            /\ rerender' = TRUE
            /\ UNCHANGED broken
    /\ UNCHANGED <<tables, view, stale, shown, change, removed, budget>>

\* Mutant: the continuation does not look at `stopped`.
AnsweredLate_Shows(q) ==
    /\ q.at = "done"
    /\ stale' = stale \ {q}
    /\ shown' = IF q.op = view /\ ~q.error THEN q ELSE shown
    /\ UNCHANGED <<tables, view, poll, broken, rerender, selection, change, removed, budget>>

\* An effect that was stopped does nothing.
AnsweredLate(q) ==
    /\ q.at = "done"
    /\ stale' = stale \ {q}
    /\ UNCHANGED <<tables, view, poll, screen, rerender, selection, change, removed, budget>>

\* Six seconds have passed, the connection broke, or the backend answers 503.
PollFails ==
    /\ poll # <<>> /\ poll[1].at # "done"
    /\ Spend("fault")
    /\ poll' = <<Refusing(poll[1])>>
    /\ UNCHANGED <<tables, view, stale, screen, rerender, selection, change, removed>>

-----------------------------------------------------------------------------
(* Clicks                                                                  *)

\* The button is disabled while the view loads.
Refresh ==
    /\ view \in {"equipment", "history"}
    /\ view = "history" => selection # NoSelection
    /\ poll = <<>>
    /\ Spend("refresh")
    /\ rerender' = TRUE
    /\ UNCHANGED <<tables, view, poll, stale, screen, selection, change, removed>>

Select(device, window) ==
    /\ view = "history"
    /\ device \in selection.options
    /\ <<selection.device, selection.window>> # <<device, window>>
    /\ Spend("select")
    /\ selection' = [selection EXCEPT !.device = device, !.window = window]
    /\ rerender' = TRUE
    /\ UNCHANGED <<tables, view, poll, stale, screen, change, removed>>

\* The button of a device on the screen, or the registration form; one at a time.
Submit(kind, d) ==
    /\ view = "devices"
    /\ change = NoChange
    /\ kind = "remove" => shown.op = "devices" /\ d \in DOMAIN shown.answer
    /\ Spend("change")
    /\ change' = [kind |-> kind, device |-> d, at |-> "sent", mounted |-> TRUE]
    /\ UNCHANGED <<tables, view, poll, stale, screen, rerender, selection, removed>>

\* The backend commits the change or refuses it.
Execute ==
    /\ change # NoChange /\ change.at = "sent"
    /\ LET d == change.device
           possible == IF change.kind = "remove" THEN Removable(d) ELSE d \notin registered
       IN  /\ change' = [change EXCEPT !.at = IF possible THEN "ok" ELSE "error"]
           /\ IF possible
              THEN /\ registered' = IF change.kind = "remove" THEN registered \ {d}
                                    ELSE registered \cup {d}
                   /\ changes' = changes + 1
                   /\ removed' = removed \ {d}
              ELSE UNCHANGED <<registered, changes, removed>>
    /\ UNCHANGED <<rows, episodes, view, poll, stale, screen, rerender, selection, budget>>

\* Its answer is lost, or it never arrives.
ChangeFails ==
    /\ change # NoChange /\ change.at \in {"sent", "ok"}
    /\ Spend("fault")
    /\ change' = [change EXCEPT !.at = "error"]
    /\ UNCHANGED <<tables, view, poll, stale, screen, rerender, selection, removed>>

\* On 204 the device leaves the list and the list is read again; on 201 it is read
\* again; on an error there is a message.  Nobody listens in another view.
Changed ==
    /\ change # NoChange /\ change.at \in {"ok", "error"}
    /\ change' = NoChange
    /\ IF change.at = "ok" /\ change.mounted
       THEN /\ rerender' = TRUE
            /\ IF change.kind = "remove" /\ change.device \notin registered
               THEN removed' = removed \cup {change.device} ELSE UNCHANGED removed
            /\ IF change.kind = "remove" /\ shown.op = "devices"
               THEN shown' = [shown EXCEPT !.answer =
                                 [d \in DOMAIN @ \ {change.device} |-> @[d]]]
               ELSE UNCHANGED shown
       ELSE UNCHANGED <<rerender, removed, shown>>
    /\ UNCHANGED <<tables, view, poll, stale, broken, selection, budget>>

-----------------------------------------------------------------------------
(* The backend and everybody else                                          *)

\* One statement of a request.
Serve ==
    /\ poll # <<>> /\ poll[1].at # "done"
    /\ poll' = <<Served(poll[1])>>
    /\ UNCHANGED <<tables, view, stale, screen, rerender, selection, change, removed, budget>>

Others ==
    /\ \/ Spend("reading") /\ \E r \in Readings : StoreReading(r)
       \/ /\ Spend("episode")
          /\ \/ \E d \in Devices, time \in 1..2 : OpenEpisode(d, time)
             \/ \E e \in DOMAIN episodes : ResolveEpisode(e)
    /\ UNCHANGED <<view, poll, stale, screen, rerender, selection, change, removed>>

\* Another operator registers a device.
RegisterElsewhere(d) ==
    /\ d \notin registered
    /\ Spend("registry")
    /\ registered' = registered \cup {d}
    /\ changes' = changes + 1
    /\ removed' = removed \ {d}
    /\ UNCHANGED <<rows, episodes, view, poll, stale, screen, rerender, selection, change>>

Browser == Render \/ Again \/ Answered \/ Choose \/ Changed \/ \E q \in stale : AnsweredLate(q)

Clicks ==
    \/ \E v \in Views : Navigate(v)
    \/ Refresh
    \/ \E d \in Devices, w \in Windows : Select(d, w)
    \/ \E d \in Devices, kind \in {"register", "remove"} : Submit(kind, d)

Next ==
    \/ Browser \/ Clicks
    \/ PollFails \/ ChangeFails
    \/ Serve \/ Execute
    \/ Others \/ \E d \in Devices : RegisterElsewhere(d)

Spec == Init /\ [][Next]_vars

\* The browser runs its timers and continuations, and the backend serves what
\* reaches it.
LiveSpec == Spec /\ WF_vars(Render) /\ WF_vars(Again) /\ WF_vars(Answered) /\ WF_vars(Serve)

-----------------------------------------------------------------------------

\* What an answer leaves out is less worth showing than everything it has.  A
\* history is the newest part of its window and says so if there is more, and where
\* it marks no gap nothing is missing: no reading of that boot and none of the window.  A
\* list of episodes with a resolved one has every active one.  (The tables may have
\* grown since: by what comes later in its order, or was committed later.)
HistoryIsComplete(q) ==
    LET ids     == q.answer.ids
        listed  == {ids[k] : k \in DOMAIN ids}
        omitted == InWindow(q.device, q.window) \ listed
    IN  /\ omitted # {} /\ q.from = changes => q.answer.truncated
        /\ q.from = changes => \A i \in omitted, j \in listed : Before(i, j)
        /\ \A k \in DOMAIN ids : k > 1 /\ ~q.answer.gaps[k] =>
             /\ rows[ids[k - 1]].boot = rows[ids[k]].boot
             /\ \A i \in RowsOf(q.device) :
                  rows[i].boot = rows[ids[k]].boot =>
                     rows[i].n <= rows[ids[k - 1]].n \/ rows[i].n >= rows[ids[k]].n
             /\ q.from = changes => \A i \in InWindow(q.device, q.window) :
                  ~(Before(ids[k - 1], i) /\ Before(i, ids[k]))

EpisodesAreComplete(q) ==
    LET ids == {e.id : e \in q.answer.listed} IN
    (\E e \in q.answer.listed : e.resolved) /\ q.from = changes =>
        \A e \in DOMAIN episodes \ ids : episodes[e].resolved

AnswersAreComplete ==
    \A q \in stale \cup {poll[k] : k \in DOMAIN poll} :
        q.at = "done" /\ ~q.error =>
            /\ q.op = "history" => HistoryIsComplete(q)
            /\ q.op = "alerts"  => EpisodesAreComplete(q)

\* A view never goes back to an older answer, and History shows what is selected as
\* soon as the click has been rendered.
ShownIsCurrent ==
    [][/\ shown'.op # "none" => shown'.op = view'
       /\ shown.op # "none" /\ shown'.op = shown.op /\ view \in Polled => shown'.from >= shown.from
       /\ shown'.op = "history" /\ ~rerender' =>
            shown'.device = selection'.device /\ shown'.window = selection'.window]_vars

\* A device whose removal was confirmed disappears from the list, for as long as
\* nobody registers it again: an answer from before the removal may bring it back
\* only until the next one.
Lists(d) == view = "devices" /\ shown.op = "devices" /\ d \in DOMAIN shown.answer

RemovedGoes == \A d \in Devices : d \in removed ~> (d \in removed => ~Lists(d))
=============================================================================
