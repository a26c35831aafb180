-------------------------------- MODULE Watch --------------------------------
(***************************************************************************)
(* The proximity-watch daemon of kozi-cli, reading the state.json that     *)
(* other commands, and the user's editor, change under it.  It looks at    *)
(* the file at the beginning of each tick only.  notify-send may fail, or  *)
(* never return.                                                           *)
(***************************************************************************)
EXTENDS KoziState

CONSTANT MaxEdits   \* bound: edits of state.json by hand

VARIABLES
    watch,      \* where runWatchLoop is
    view,       \* the state this tick works on
    at,         \* the buddy of view to look at next
    told,       \* the names notified in this tick
    due,        \* ticker.C holds a tick; the ticker is made after the first tick
    signalled,  \* SIGINT or SIGTERM arrived: ctx is done
    edits

wvars == <<watch, view, at, told, due, signalled, edits>>
allvars == <<vars, wvars>>

WatchInit ==
    /\ Init
    /\ watch = "off"
    /\ view = EmptyState
    /\ at = 1
    /\ told = <<>>
    /\ due = FALSE
    /\ signalled = FALSE
    /\ edits = 0

-----------------------------------------------------------------------------
(* The loop.                                                               *)

InTick == watch \in {"loading", "looking", "notifying"}

Launch ==
    /\ watch = "off"
    /\ watch' = "loading"
    /\ UNCHANGED <<vars, view, at, told, due, signalled, edits>>

\* Mutant: retried at once.
LoadTickRetry ==
    /\ watch = "loading"
    /\ LoadState # NoState => LoadState.loc = NoGrid
    /\ UNCHANGED allvars

\* tick: an unreadable file or a state without a location ends it at once.
LoadTick ==
    /\ watch = "loading"
    /\ LoadState # NoState => LoadState.loc = NoGrid
    /\ watch' = "waiting"
    /\ UNCHANGED <<vars, view, at, told, due, signalled, edits>>

Begin ==
    /\ watch = "loading"
    /\ LoadState # NoState
    /\ LoadState.loc # NoGrid
    /\ view' = LoadState
    /\ at' = 1
    /\ told' = <<>>
    /\ watch' = "looking"
    /\ UNCHANGED <<vars, due, signalled, edits>>

Matches(b, s) == b.seen # NoGrid /\ normalizePlusCode(b.seen) = normalizePlusCode(s.loc)

EndTick ==
    /\ watch' = "waiting"
    /\ UNCHANGED <<vars, view, due, signalled, edits>>

\* Mutant: break for continue.
PassAndEnd ==
    /\ watch = "looking"
    /\ at <= Len(view.buddies)
    /\ ~Matches(view.buddies[at], view)
    /\ UNCHANGED <<at, told>>
    /\ EndTick

Pass ==
    /\ watch = "looking"
    /\ at <= Len(view.buddies)
    /\ ~Matches(view.buddies[at], view)
    /\ at' = at + 1
    /\ UNCHANGED <<vars, watch, view, told, due, signalled, edits>>

Notify ==
    /\ watch = "looking"
    /\ at <= Len(view.buddies)
    /\ Matches(view.buddies[at], view)
    /\ watch' = "notifying"
    /\ UNCHANGED <<vars, view, at, told, due, signalled, edits>>

\* Mutant: the index is not advanced after a notification.
NotifiedAgain(n) ==
    /\ watch = "notifying"
    /\ view.buddies[at].name = n
    /\ told' = Append(told, n)
    /\ watch' = "looking"
    /\ at' = IF Len(told) > 0 THEN at + 1 ELSE at
    /\ UNCHANGED <<vars, view, due, signalled, edits>>

Notified(n) ==
    /\ watch = "notifying"
    /\ view.buddies[at].name = n
    /\ told' = Append(told, n)
    /\ at' = at + 1
    /\ watch' = "looking"
    /\ UNCHANGED <<vars, view, due, signalled, edits>>

\* Mutant: the error is returned from runWatchLoop.
NotifyFailsQuits ==
    /\ watch = "notifying"
    /\ watch' = "stopped"
    /\ UNCHANGED <<vars, view, at, told, due, signalled, edits>>

\* watchOnce gives up on the buddies that follow.
NotifyFails ==
    /\ watch = "notifying"
    /\ UNCHANGED <<at, told>>
    /\ EndTick

TickDone ==
    /\ watch = "looking"
    /\ at > Len(view.buddies)
    /\ UNCHANGED <<at, told>>
    /\ EndTick

-----------------------------------------------------------------------------
(* The select: with both channels ready either case may be taken.          *)

\* A tick that is not collected in time makes the next ones be dropped.
Fire ==
    /\ watch \notin {"off", "stopped"}
    /\ ~due
    /\ due' = TRUE
    /\ UNCHANGED <<vars, watch, view, at, told, signalled, edits>>

NextTick ==
    /\ watch = "waiting"
    /\ due
    /\ due' = FALSE
    /\ watch' = "loading"
    /\ UNCHANGED <<vars, view, at, told, signalled, edits>>

Stop ==
    /\ watch = "waiting"
    /\ signalled
    /\ watch' = "stopped"
    /\ UNCHANGED <<vars, view, at, told, due, signalled, edits>>

\* NotifyContext swallows every later signal too.
Signal ==
    /\ watch \notin {"off", "stopped"}
    /\ ~signalled
    /\ signalled' = TRUE
    /\ UNCHANGED <<vars, watch, view, at, told, due, edits>>

-----------------------------------------------------------------------------
(* The user sets last_seen_grid by hand: nothing else writes it.           *)

EditSeen(n, g) ==
    /\ edits < MaxEdits
    /\ edits' = edits + 1
    /\ LoadState # NoState
    /\ Has(LoadState, n)
    /\ LET s == [LoadState EXCEPT !.buddies[IndexOf(LoadState, n)].seen = g] IN
       file' = Content(s, Size(s))
    /\ UNCHANGED <<pc, cmd, mem, starts, spoiled, watch, view, at, told, due, signalled>>

-----------------------------------------------------------------------------
Loop ==
    \/ LoadTick \/ Begin \/ Pass \/ Notify \/ TickDone
    \/ NextTick

Notifier == NotifyFails \/ \E n \in Names : Notified(n)

WatchNext ==
    \/ Next /\ UNCHANGED wvars
    \/ Launch \/ Fire \/ Signal \/ Stop
    \/ Loop \/ Notifier
    \/ \E n \in Names, g \in Grids : EditSeen(n, g)

WatchSpec == WatchInit /\ [][WatchNext]_allvars

\* The goroutine runs, time passes, and a select that is offered ctx.Done()
\* again and again does not pass it over for ever: Go picks at random.
LoopFairness == WF_allvars(Loop) /\ WF_allvars(Fire) /\ SF_allvars(Stop)

\* Nothing is assumed of notify-send: it may fail each time, or never return.
FairSpec == WatchSpec /\ LoopFairness

-----------------------------------------------------------------------------
(* Properties.                                                             *)

\* The last name notified has not been notified before in the same tick: the
\* loop walks a list in which, however commands race, no name is twice.
OncePerTick == \A i, j \in 1..Len(told) : told[i] = told[j] => i = j

NearNow(n) ==
    /\ LoadState # NoState
    /\ LoadState.loc # NoGrid
    /\ \E i \in 1..Len(LoadState.buddies) :
          LET b == LoadState.buddies[i] IN
          b.name = n /\ b.seen # NoGrid /\ Coarse[b.seen] = LoadState.loc

\* A notify-send that never returns.
Hangs == <>[](watch = "notifying")

\* A notification fails for n or, before n's turn comes, for another buddy.
FailsBefore(n) == NotifyFails /\ n \notin {told[i] : i \in 1..Len(told)}

\* A buddy who stays near is notified of infinitely often while no signal comes,
\* though ticks meet files cut short and work on what they read at their
\* beginning.  Only a notify-send that hangs, or one that fails infinitely often
\* for him or for a buddy before him in the list, can keep him from it.
NearIsTold ==
    \A n \in Names :
        <>[](NearNow(n) /\ watch # "off" /\ ~signalled)
            => \/ []<><<Notified(n)>>_allvars
               \/ []<><<FailsBefore(n)>>_allvars
               \/ Hangs

\* A signal ends the daemon, unless a notify-send hangs: Notify runs inside the
\* tick and does not see the context.
StopsOnSignal == (signalled ~> watch = "stopped") \/ Hangs

\* A tick that ends without a failed notification has told of every buddy the
\* file it began with had nearby, and of nobody else.
WholeTick ==
    [][watch = "looking" /\ watch' = "waiting" =>
          {told[i] : i \in 1..Len(told)} =
              {view.buddies[i].name :
                  i \in {j \in 1..Len(view.buddies) : Matches(view.buddies[j], view)}}]_allvars
=============================================================================
