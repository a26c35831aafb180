------------------------------ MODULE KoziState ------------------------------
(***************************************************************************)
(* kozi-cli's state.json and the commands that load it, change it and save *)
(* it, each in a process of its own.  Nothing locks the file.  A save is   *)
(* os.WriteFile: one step truncates the file, a later one writes it from   *)
(* its start, and the process may die in between.                          *)
(***************************************************************************)
EXTENDS Integers, Sequences

CONSTANTS
    Procs,       \* shells the user runs commands from
    Names,       \* buddy names
    Grids,       \* plus codes as typed
    Coarse,      \* the neighbourhood of each
    NoGrid,      \* the empty string
    Size(_),     \* length of the JSON text of a state
    Exclusive,   \* the user runs one command at a time
    MaxStarts,   \* bound: commands run
    NoState, NoFile

ASSUME KoziAssumption ==
    /\ Coarse \in [Grids \cup {NoGrid} -> Grids \cup {NoGrid}]
    /\ Coarse[NoGrid] = NoGrid
    /\ \A g \in Grids : Coarse[Coarse[g]] = Coarse[g]
    /\ Exclusive \in BOOLEAN
    /\ MaxStarts \in Nat

VARIABLES
    file,     \* state.json: the JSON text it starts with, if any, and its length
    pc, cmd,  \* the commands
    mem,      \* mem[p]: what p is about to save
    starts,
    spoiled   \* history: a save was cut short, or began during another

vars == <<file, pc, cmd, mem, starts, spoiled>>

-----------------------------------------------------------------------------
(* States and their representation.                                        *)

Buddy(n) == [name |-> n, seen |-> NoGrid]
Buddies == [name : Names, seen : Grids \cup {NoGrid}]
normalizePlusCode(g) == Coarse[g]

CoarseGrids == {Coarse[g] : g \in Grids \cup {NoGrid}}
States == [loc : CoarseGrids, buddies : Seq(Buddies)]
EmptyState == [loc |-> NoGrid, buddies |-> <<>>]

Files == [head : States \cup {NoState}, size : Nat]
ASSUME NothingAssumption == NoState \notin States /\ NoFile \notin Files

Content(head, size) == [head |-> head, size |-> size]

\* json.Unmarshal refuses a text cut short and one followed by more text.
Readable == file # NoFile => file.head # NoState /\ file.size = Size(file.head)

\* Mutant: an unreadable file counts as no file.
LoadStateLax == IF file # NoFile /\ Readable THEN file.head ELSE EmptyState

\* NoState is an error.
LoadState ==
    IF file = NoFile THEN EmptyState ELSE IF Readable THEN file.head ELSE NoState

-----------------------------------------------------------------------------
(* What the commands do to a loaded state.                                 *)

Commands == [kind : {"pair", "unpair"}, arg : Names]
            \cup [kind : {"set-location"}, arg : Grids]
            \cup [kind : {"list"}, arg : {NoGrid}]

Has(s, n) == \E i \in 1..Len(s.buddies) : s.buddies[i].name = n

AlwaysAccepted(c, s) == c.kind = "unpair" => Has(s, c.arg)  \* mutant
Accepted(c, s) ==
    /\ c.kind = "pair" => ~Has(s, c.arg)
    /\ c.kind = "unpair" => Has(s, c.arg)

\* The first buddy of that name.
IndexOf(s, n) ==
    CHOOSE i \in 1..Len(s.buddies) :
        /\ s.buddies[i].name = n
        /\ \A j \in 1..(i - 1) : s.buddies[j].name # n

Without(seq, i) == SubSeq(seq, 1, i - 1) \o SubSeq(seq, i + 1, Len(seq))

\* Mutant: unpair cuts the list at the buddy.
ApplyCut(c, s) ==
    CASE c.kind = "pair" -> [s EXCEPT !.buddies = Append(@, Buddy(c.arg))]
      [] c.kind = "unpair" -> [s EXCEPT !.buddies = SubSeq(@, 1, IndexOf(s, c.arg) - 1)]
      [] c.kind = "set-location" -> [s EXCEPT !.loc = normalizePlusCode(c.arg)]

\* Mutant: set-location keeps the code as typed.
ApplyRaw(c, s) ==
    CASE c.kind = "pair" -> [s EXCEPT !.buddies = Append(@, Buddy(c.arg))]
      [] c.kind = "unpair" -> [s EXCEPT !.buddies = Without(@, IndexOf(s, c.arg))]
      [] c.kind = "set-location" -> [s EXCEPT !.loc = c.arg]

Apply(c, s) ==
    CASE c.kind = "pair" -> [s EXCEPT !.buddies = Append(@, Buddy(c.arg))]
      [] c.kind = "unpair" -> [s EXCEPT !.buddies = Without(@, IndexOf(s, c.arg))]
      [] c.kind = "set-location" -> [s EXCEPT !.loc = normalizePlusCode(c.arg)]

-----------------------------------------------------------------------------
(* A command.                                                              *)

Running(p) == pc[p] \in {"start", "saving", "writing"}

Init ==
    /\ file = NoFile
    /\ pc = [p \in Procs |-> "idle"]
    /\ cmd = [p \in Procs |-> NoState]
    /\ mem = [p \in Procs |-> NoState]
    /\ starts = 0
    /\ spoiled = FALSE

Goto(p, at) == pc' = [pc EXCEPT ![p] = at]

Start(p, c) ==
    /\ ~Running(p)
    /\ Exclusive => \A r \in Procs : ~Running(r)
    /\ starts < MaxStarts
    /\ starts' = starts + 1
    /\ cmd' = [cmd EXCEPT ![p] = c]
    /\ Goto(p, "start")
    /\ UNCHANGED <<file, mem, spoiled>>

\* Wrong arguments: an empty name, a URI that does not parse, a code of the
\* wrong length.
Refuse(p) ==
    /\ pc[p] = "start"
    /\ Goto(p, "failed")
    /\ UNCHANGED <<file, cmd, mem, starts, spoiled>>

LoadFails(p) ==
    /\ pc[p] = "start"
    /\ LoadState = NoState
    /\ Goto(p, "failed")
    /\ UNCHANGED <<file, cmd, mem, starts, spoiled>>

\* The name is taken, or there is none such.
Reject(p) ==
    /\ pc[p] = "start"
    /\ LoadState # NoState
    /\ ~Accepted(cmd[p], LoadState)
    /\ Goto(p, "failed")
    /\ UNCHANGED <<file, cmd, mem, starts, spoiled>>

List(p) ==
    /\ pc[p] = "start"
    /\ cmd[p].kind = "list"
    /\ LoadState # NoState
    /\ Goto(p, "done")
    /\ UNCHANGED <<file, cmd, mem, starts, spoiled>>

\* pair, unpair and set-location, up to the call of saveState.
Change(p) ==
    /\ pc[p] = "start"
    /\ cmd[p].kind # "list"
    /\ LoadState # NoState
    /\ Accepted(cmd[p], LoadState)
    /\ mem' = [mem EXCEPT ![p] = Apply(cmd[p], LoadState)]
    /\ Goto(p, "saving")
    /\ UNCHANGED <<file, cmd, starts, spoiled>>

\* The directory cannot be made or the file cannot be opened.
SaveRefused(p) ==
    /\ pc[p] = "saving"
    /\ Goto(p, "failed")
    /\ UNCHANGED <<file, cmd, mem, starts, spoiled>>

Saving == \E r \in Procs : pc[r] = "writing"

\* Mutant: the file is opened without O_TRUNC.
AsItWas == IF file = NoFile THEN Content(NoState, 0) ELSE Content(NoState, file.size)
Truncated == Content(NoState, 0)

Truncate(p) ==
    /\ pc[p] = "saving"
    /\ file' = Truncated
    /\ spoiled' = (spoiled \/ Saving)
    /\ Goto(p, "writing")
    /\ UNCHANGED <<cmd, mem, starts>>

\* Both writers of an overlap start at offset 0: the longer text leaves its end.
Write(p) ==
    /\ pc[p] = "writing"
    /\ file' = Content(mem[p], IF file.size > Size(mem[p]) THEN file.size ELSE Size(mem[p]))
    /\ Goto(p, "done")
    /\ UNCHANGED <<cmd, mem, starts, spoiled>>

\* The disk is full: nothing, or a beginning of the text, was written.
WriteShort(p) ==
    /\ pc[p] = "writing"
    /\ file' \in {file, Content(NoState, IF file.size > Size(mem[p]) THEN file.size ELSE Size(mem[p]) - 1)}
    /\ spoiled' = TRUE
    /\ Goto(p, "failed")
    /\ UNCHANGED <<cmd, mem, starts>>

\* Ctrl-C, a kill, a power cut.
Crash(p) ==
    /\ Running(p)
    /\ spoiled' = (spoiled \/ pc[p] = "writing")
    /\ Goto(p, "crashed")
    /\ UNCHANGED <<file, cmd, mem, starts>>

Command(p) ==
    \/ Refuse(p) \/ LoadFails(p) \/ Reject(p) \/ List(p) \/ Change(p)
    \/ SaveRefused(p) \/ Truncate(p) \/ Write(p) \/ WriteShort(p)

Next ==
    \E p \in Procs : (\E c \in Commands : Start(p, c)) \/ Command(p) \/ Crash(p)

Spec == Init /\ [][Next]_vars

-----------------------------------------------------------------------------
(* Properties.                                                             *)

\* Types; in particular only coarse locations are held and stored.
TypeOK ==
    /\ file \in {NoFile} \cup Files
    /\ pc \in [Procs -> {"idle", "start", "saving", "writing", "done", "failed", "crashed"}]
    /\ \A p \in Procs : Running(p) => cmd[p] \in Commands
    /\ \A p \in Procs : pc[p] \in {"saving", "writing"} => mem[p] \in States
    /\ starts \in 0..MaxStarts
    /\ spoiled \in BOOLEAN

NamesDiffer(s) ==
    \A i, j \in 1..Len(s.buddies) : s.buddies[i].name = s.buddies[j].name => i = j

\* No name is paired twice, in the file or in what a command is about to save,
\* however the commands' loads and saves interleave: pair checks a list that may
\* be stale by the time it is written, but writes that very list.
NoNameTwice ==
    /\ file # NoFile /\ file.head # NoState => NamesDiffer(file.head)
    /\ \A p \in Procs : pc[p] \in {"saving", "writing"} => NamesDiffer(mem[p])

\* Between saves the file can be loaded, unless a save was cut short or two of
\* them overlapped.
ReadableAtRest == ~Saving /\ ~spoiled => Readable

\* A file that cannot be loaded is never written over by a command that loads
\* it after: what is left of it stays there for the user to repair, for ever if
\* the user does not.
Stuck == ~Readable /\ \A p \in Procs : pc[p] \notin {"saving", "writing"}
UnreadableIsKept == [][Stuck => Stuck' /\ file' = file]_vars

-----------------------------------------------------------------------------
(* With one command at a time the file is a KoziStore: a command counts from *)
(* the truncation on, for a crash right after it loses everything.           *)

Current == IF Saving THEN mem[CHOOSE p \in Procs : pc[p] = "writing"] ELSE LoadState
Lost == ~Saving /\ ~Readable

Store == INSTANCE KoziStore WITH
    paired <- IF Lost THEN {} ELSE {Current.buddies[i].name : i \in 1..Len(Current.buddies)},
    location <- IF Lost THEN NoGrid ELSE Current.loc,
    lost <- Lost

\* Whole commands only, until everything is lost.
StoreSpec == Store!Spec
=============================================================================
