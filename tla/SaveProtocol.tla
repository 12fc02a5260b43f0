---------------------------- MODULE SaveProtocol -----------------------------
(***************************************************************************)
(* One workflow.json and its writers: the package store                    *)
(* (backend/openstategraph/api/workflow_store.py behind                    *)
(* api/routes/workflows.py), the editor tabs that have it open             *)
(* (src/app/diskAutosave.ts, src/app/WorkbenchContext.tsx,                 *)
(* src/view/workflow/) and the writers that know nothing of digests: a     *)
(* coding agent or the CLI, a publish, a delete.                           *)
(*                                                                         *)
(* A document is the set of edits in it.  A file is its document and a     *)
(* write count, which stands for savedAt: no two writes leave the same     *)
(* bytes, so a file is its own digest.  Requests run on threads of the     *)
(* server; between two reads or writes of the file anybody may step in.    *)
(* Tabs are in browsers of their own: nothing of localStorage is shared.   *)
(***************************************************************************)
EXTENDS Naturals, FiniteSets

CONSTANTS
  Tabs,
  Slots,       \* saves one tab may have under way at a time
  MaxEdits,    \* bound: edits made, by users and by agents
  MaxAnswers,  \* bound: answers of a user to a notice or a dialog
  MaxRare      \* bound: writes of an agent, publishes, deletes, presses of Save,
               \* overlapping autosaves, lost requests and reloads together

ASSUME BoundsAreNaturals == {MaxEdits, MaxAnswers, MaxRare} \subseteq Nat
ASSUME FewTabs == IsFiniteSet(Tabs) /\ IsFiniteSet(Slots)

Docs  == SUBSET (1 .. MaxEdits)
Files == [doc : Docs, write : Nat]

\* No document has edit 0; no file, no digest, no offer.
NoDoc == {0}
Gone  == [doc |-> NoDoc, write |-> 0]

NoCall == [pc |-> "idle", kind |-> "auto", doc |-> {}, quote |-> Gone, kept |-> Gone,
           result |-> "none", got |-> Gone, home |-> TRUE]
NoLoad == [pc |-> "idle", act |-> "open", file |-> Gone, typed |-> {}]

VARIABLES
  file,       \* the bytes of workflow.json
  publisher,  \* the document a running set_published has read
  screen,     \* screen[t]: the model on the canvas
  base,       \* diskAutosave.lastWritten
  known,      \* workflowFileWatch.knownDigest, Gone for a missing key
  timer,      \* the debounce timer of autosave is running
  down,       \* diskAutosave.standingDown
  offer,      \* restoredDraftConflict.pending: the file offered, or Gone
  draft,      \* the draft of this browser and its baseDigest
  open,       \* is the package the tab's open slug?
  reported,   \* lastDiskReported: the user knows the last save failed
  hint,       \* a row or a frame on its way to the tab
  load,       \* the load-then-summary of the tab that is under way
  call        \* call[t][i]: saves of the tab, each on a server thread

\* What the properties speak of and nobody in the code keeps.
VARIABLES
  seen,       \* seen[t]: edits tab t had on screen, or was told of
  late,       \* what got between the steps of tab t, see Disturb and Crosses
  landed,     \* edits that were in the file once
  kept,       \* the file the user of t last chose to overwrite, or Gone
  deferred,   \* the user of t left a question open
  spent       \* how often each bounded thing has happened

fileVars == <<file, publisher, landed>>
docVars  == <<screen, base, known, timer, down, offer, draft, open, reported>>
askVars  == <<kept, deferred>>
vars == <<fileVars, docVars, askVars, hint, load, call, seen, late, spent>>

Bounds == [edits |-> MaxEdits, answers |-> MaxAnswers, rare |-> MaxRare]

Spend(what) == spent[what] < Bounds[what] /\ spent' = [spent EXCEPT ![what] = @ + 1]

NextEdit == spent.edits + 1

\* The document on screen is not what the tab believes the file holds.
Unbaselined(t) == base[t] = NoDoc
Dirty(t) == ~Unbaselined(t) /\ base[t] # screen[t]

-----------------------------------------------------------------------------
(***************************************************************************)
(* The windows.  A tab takes a document in one request and its digest in   *)
(* the next; a save compares in one read, writes, and reads its receipt    *)
(* afterwards.  late[t] records that somebody else wrote in one of them,   *)
(* or that the tab crossed a save of its own.                              *)
(***************************************************************************)
InWindow(t) ==
  \/ load[t].pc = "row"
  \/ \E i \in Slots : call[t][i].pc \in {"write", "receipt"}

Disturb(writers) ==
  late' = [t \in Tabs |-> IF t \notin writers /\ InWindow(t)
                          THEN late[t] \cup {"others"} ELSE late[t]]

\* A save leaves, the timer fires in vain, the baseline moves or the page is
\* reloaded, while a save of the tab is under way.
Saving(t) == \E i \in Slots : call[t][i].pc # "idle"

Crosses(t) ==
  late' = IF Saving(t)
          THEN [late EXCEPT ![t] = @ \cup {"itself"}] ELSE late

\* Every version somebody may still compare with the file.
RememberedBy(t) ==
  {known[t], offer[t], kept[t], draft[t].base, load[t].file} \cup hint[t]
  \cup UNION {{call[t][i].quote, call[t][i].got, call[t][i].kept} : i \in Slots}

Remembered == {file} \cup UNION {RememberedBy(t) : t \in Tabs}

\* A stamp nobody remembers: to compare versions is all the code does.
FreshStamp(doc) ==
  CHOOSE n \in 0 .. Cardinality(Remembered) :
    /\ [doc |-> doc, write |-> n] \notin Remembered
    /\ \A m \in 0 .. (n - 1) : [doc |-> doc, write |-> m] \in Remembered

\* `write_text`: new bytes, even where they say the same.
Put(doc, writers) ==
  /\ file' = [doc |-> doc, write |-> FreshStamp(doc)]
  /\ landed' = landed \cup doc
  /\ Disturb(writers)

-----------------------------------------------------------------------------
(***************************************************************************)
(* The store's `save`, as the editor calls it: with must_exist, and with   *)
(* expected_digest unless the tab knows none.                              *)
(***************************************************************************)
\* Mutant: the digest is not compared.
NeverMoved(t, i) == FALSE

Moved(t, i) == call[t][i].quote \notin {Gone, file}

Answered(t, i, result) == [call EXCEPT ![t][i].pc = "answer", ![t][i].result = result]

\* The checks, on a file that may be another one a moment later.
Check(t, i) ==
  /\ call[t][i].pc = "check"
  /\ call' = IF file = Gone THEN Answered(t, i, "missing")
             ELSE IF Moved(t, i)
             THEN [Answered(t, i, "conflict") EXCEPT ![t][i].got = file]
             ELSE [call EXCEPT ![t][i].pc = "write"]
  /\ UNCHANGED <<fileVars, docVars, askVars, hint, load, seen, late, spent>>

\* _write: nothing when only the clock would change.
Write(t, i) ==
  /\ call[t][i].pc = "write"
  /\ IF file # Gone /\ file.doc = call[t][i].doc
     THEN UNCHANGED <<file, landed, late>>
     ELSE Put(call[t][i].doc, {t})
  /\ call' = [call EXCEPT ![t][i].pc = "receipt"]
  /\ UNCHANGED <<publisher, docVars, askVars, hint, load, seen, spent>>

\* _digest_now: the answer is read from the file, after the write.
Receipt(t, i) ==
  /\ call[t][i].pc = "receipt"
  /\ call' = [Answered(t, i, "ok") EXCEPT ![t][i].got = file]
  /\ UNCHANGED <<fileVars, docVars, askVars, hint, load, seen, late, spent>>

(***************************************************************************)
(* The writers that quote nothing.  The MCP server's save_workflow, or an  *)
(* agent with an editor of its own, writes what it makes of a document it  *)
(* once read, also where there is none any more; set_published writes back *)
(* the document it read.                                                   *)
(***************************************************************************)
AgentWrites ==
  /\ spent.rare < MaxRare /\ spent.edits < MaxEdits
  /\ spent' = [spent EXCEPT !.rare = @ + 1, !.edits = @ + 1]
  /\ \E read \in SUBSET landed : Put(read \cup {NextEdit}, {})
  /\ UNCHANGED <<publisher, docVars, askVars, hint, load, call, seen>>

PublishReads ==
  /\ file # Gone
  /\ publisher = NoDoc
  /\ Spend("rare")
  /\ publisher' = file.doc
  /\ UNCHANGED <<file, landed, docVars, askVars, hint, load, call, seen, late>>

\* The directory may be gone by now, and then the write raises.
PublishWrites ==
  /\ publisher # NoDoc
  /\ publisher' = NoDoc
  /\ IF file = Gone THEN UNCHANGED <<file, landed, late>>
     ELSE Put(publisher, {})
  /\ UNCHANGED <<docVars, askVars, hint, load, call, seen, spent>>

Delete ==
  /\ file # Gone
  /\ Spend("rare")
  /\ file' = Gone
  /\ Disturb({})
  /\ UNCHANGED <<landed, publisher, docVars, askVars, hint, load, call, seen>>

-----------------------------------------------------------------------------
(***************************************************************************)
(* Editing and saving in a tab.                                            *)
(***************************************************************************)
\* A dialog that asks about the document is in front of it.
Type(t) ==
  /\ open[t] /\ offer[t] = Gone
  /\ Spend("edits")
  /\ screen' = [screen EXCEPT ![t] = @ \cup {NextEdit}]
  /\ timer' = [timer EXCEPT ![t] = TRUE]
  /\ load' = IF load[t].pc = "load"
             THEN [load EXCEPT ![t].typed = @ \cup {NextEdit}] ELSE load
  /\ seen' = [seen EXCEPT ![t] = @ \cup {NextEdit}]
  /\ UNCHANGED <<fileVars, base, known, down, offer, draft, open, reported, askVars,
                 hint, call, late>>

\* baseDigestOfDraft: the base is recorded only while a baseline stands.
DraftNow(t) == [doc |-> screen[t], base |-> IF Unbaselined(t) THEN Gone ELSE known[t]]

\* Slots are alike: the lowest free one is taken.
Free(t, i) == call[t][i].pc = "idle" /\ \A j \in Slots : j < i => call[t][j].pc # "idle"

Sent(t, i, kind, quote) ==
  [call EXCEPT ![t][i] = [NoCall EXCEPT !.pc = "check", !.kind = kind, !.doc = screen[t],
                                        !.quote = quote, !.kept = kept[t]]]

TimerFires(t) ==
  /\ timer[t] /\ open[t]
  /\ timer' = [timer EXCEPT ![t] = FALSE]
  /\ draft' = [draft EXCEPT ![t] = DraftNow(t)]

\* writeOpenWorkflowToDisk: skipped without a baseline, unchanged on a match.
FireQuietly(t) ==
  /\ TimerFires(t)
  /\ ~Dirty(t)
  /\ reported' = [reported EXCEPT ![t] = FALSE]
  /\ Crosses(t)
  /\ UNCHANGED <<fileVars, screen, base, known, down, offer, open, askVars, hint, load,
                 call, seen, spent>>

\* ... and otherwise a save that quotes the digest this tab knows.
FireSave(t, i) ==
  /\ TimerFires(t)
  /\ Dirty(t)
  /\ Free(t, i)
  /\ call' = Sent(t, i, "auto", known[t])
  /\ IF Saving(t) THEN Spend("rare") ELSE UNCHANGED spent
  /\ Crosses(t)
  /\ UNCHANGED <<fileVars, screen, base, known, down, offer, open, reported, askVars,
                 hint, load, seen>>

\* The Save button quotes nothing: it overwrites.
PressSave(t, i) ==
  /\ open[t] /\ offer[t] = Gone
  /\ Free(t, i)
  /\ Spend("rare")
  /\ call' = Sent(t, i, "button", Gone)
  /\ Crosses(t)
  /\ UNCHANGED <<fileVars, docVars, askVars, hint, load, seen>>

Adopt(t, digest) == known' = IF digest = Gone THEN known ELSE [known EXCEPT ![t] = digest]

\* The page that sent the save was reloaded: nobody hears the answer.
Unheard(t, i) ==
  /\ call[t][i].pc = "answer" /\ ~call[t][i].home
  /\ call' = [call EXCEPT ![t][i] = NoCall]
  /\ UNCHANGED <<fileVars, docVars, askVars, hint, load, seen, late, spent>>

Hears(t, i, kind, result) ==
  /\ call[t][i].pc = "answer" /\ call[t][i].home
  /\ call[t][i].kind = kind /\ call[t][i].result = result

\* Mutant: the baseline is what is on screen when the answer arrives.
BaselineOfScreen(t, i) ==
  /\ Hears(t, i, "auto", "ok")
  /\ base' = [base EXCEPT ![t] = screen[t]]
  /\ Adopt(t, call[t][i].got)
  /\ reported' = [reported EXCEPT ![t] = FALSE]
  /\ call' = [call EXCEPT ![t][i] = NoCall]
  /\ UNCHANGED <<fileVars, screen, timer, down, offer, draft, open, askVars, hint, load,
                 seen, late, spent>>

AutosaveLands(t, i) ==
  /\ Hears(t, i, "auto", "ok")
  /\ base' = [base EXCEPT ![t] = call[t][i].doc]
  /\ Adopt(t, call[t][i].got)
  /\ reported' = [reported EXCEPT ![t] = FALSE]
  /\ call' = [call EXCEPT ![t][i] = NoCall]
  /\ UNCHANGED <<fileVars, screen, timer, down, offer, draft, open, askVars, hint, load,
                 seen, late, spent>>

\* standDownAfterConflict, and the notice that says so.
AutosaveRefused(t, i) ==
  /\ Hears(t, i, "auto", "conflict")
  /\ base' = [base EXCEPT ![t] = NoDoc]
  /\ Adopt(t, call[t][i].got)
  /\ down' = [down EXCEPT ![t] = TRUE]
  /\ reported' = [reported EXCEPT ![t] = FALSE]
  /\ seen' = [seen EXCEPT ![t] = @ \cup call[t][i].got.doc]
  /\ call' = [call EXCEPT ![t][i] = NoCall]
  /\ UNCHANGED <<fileVars, screen, timer, offer, draft, open, askVars, hint, load, late,
                 spent>>

\* Not written, or not known to be: the file is gone, the request or its
\* answer was lost.  Told to the user either way.
SaveFails(t, i) ==
  /\ call[t][i].home /\ call[t][i].result # "row"
  /\ \/ call[t][i].pc = "answer" /\ call[t][i].result = "missing" /\ UNCHANGED spent
     \/ call[t][i].pc \in {"check", "answer"} /\ Spend("rare")
  /\ reported' = [reported EXCEPT ![t] = TRUE]
  /\ call' = [call EXCEPT ![t][i] = NoCall]
  /\ UNCHANGED <<fileVars, screen, base, known, timer, down, offer, draft, open, askVars,
                 hint, load, seen, late>>

\* saveWorkflow after a save that landed: baseline now, digest one answer later.
ButtonLands(t, i) ==
  /\ Hears(t, i, "button", "ok")
  /\ base' = [base EXCEPT ![t] = call[t][i].doc]
  /\ open' = [open EXCEPT ![t] = TRUE]
  /\ down' = [down EXCEPT ![t] = FALSE]
  /\ deferred' = [deferred EXCEPT ![t] = FALSE]
  /\ call' = [call EXCEPT ![t][i].result = "row"]
  /\ UNCHANGED <<fileVars, screen, known, timer, offer, draft, reported, kept, hint, load,
                 seen, late, spent>>

\* The receipt wins over the row.
ButtonRow(t, i) ==
  /\ Hears(t, i, "button", "row")
  /\ Adopt(t, IF call[t][i].got = Gone THEN file ELSE call[t][i].got)
  /\ call' = [call EXCEPT ![t][i] = NoCall]
  /\ UNCHANGED <<fileVars, screen, base, timer, down, offer, draft, open, reported, askVars,
                 hint, load, seen, late, spent>>

-----------------------------------------------------------------------------
(***************************************************************************)
(* Learning of other writers: the five-second poll and the stream.         *)
(***************************************************************************)
\* A row or a frame leaves the server.  One that repeats what the tab knows
\* is left out, unless that may change before it arrives.  That the file is
\* gone is news to a tab that knows no version, too ...
Hear(t) ==
  /\ open[t] /\ hint[t] = {}
  /\ file = Gone \/ file # known[t] \/ Saving(t) \/ load[t].pc # "idle"
  /\ hint' = [hint EXCEPT ![t] = {file}]
  /\ UNCHANGED <<fileVars, docVars, askVars, load, call, seen, late, spent>>

Heard(t) == hint[t] # {} /\ hint' = [hint EXCEPT ![t] = {}]

\* ... and says that the file is gone: abandonDeletedWorkflow.
Abandon(t) ==
  /\ Heard(t) /\ Gone \in hint[t]
  /\ base' = [base EXCEPT ![t] = NoDoc]
  /\ known' = [known EXCEPT ![t] = Gone]
  /\ open' = [open EXCEPT ![t] = FALSE]
  /\ UNCHANGED <<fileVars, screen, timer, down, offer, draft, reported, askVars, load,
                 call, seen, late, spent>>

\* decideExternalChange on what the tab holds when it arrives.
NoNews(t, digest) == ~open[t] \/ digest = known[t]

\* Mutant: edits are not looked for before the file is taken.
AlwaysRefresh(t) == "refresh"

Reaction(t) == IF base[t] = screen[t] THEN "refresh" ELSE "ask"

Ignore(t) ==
  /\ Heard(t) /\ Gone \notin hint[t]
  /\ \E digest \in hint[t] : NoNews(t, digest)
  /\ UNCHANGED <<fileVars, docVars, askVars, load, call, seen, late, spent>>

React(t) ==
  /\ Heard(t) /\ Gone \notin hint[t]
  /\ load[t].pc = "idle"
  /\ \E digest \in hint[t] : ~NoNews(t, digest)
  /\ load' = [load EXCEPT ![t] = [NoLoad EXCEPT !.pc = "load", !.act = Reaction(t)]]
  /\ UNCHANGED <<fileVars, docVars, askVars, call, seen, late, spent>>

\* Mutant: a load that failed is taken for an answer.
LoadedAnyway(t, act) ==
  /\ load[t].pc = "load" /\ load[t].act = act
  /\ open[t]

\* `client.load`, and nothing is decided again.
Loaded(t, act) ==
  /\ load[t].pc = "load" /\ load[t].act = act
  /\ file # Gone /\ open[t]

Offered(t) ==
  /\ Loaded(t, "ask")
  /\ base' = [base EXCEPT ![t] = NoDoc]
  /\ offer' = [offer EXCEPT ![t] = file]
  /\ Crosses(t)
  /\ seen' = [seen EXCEPT ![t] = @ \cup file.doc]
  /\ load' = [load EXCEPT ![t] = NoLoad]
  /\ UNCHANGED <<fileVars, screen, known, timer, down, draft, open, reported, askVars,
                 hint, call, spent>>

\* importJSON fires onChange; the baseline is recorded after it.
Import(t, doc) ==
  /\ Crosses(t)
  /\ screen' = [screen EXCEPT ![t] = doc]
  /\ base' = [base EXCEPT ![t] = doc]
  /\ timer' = [timer EXCEPT ![t] = TRUE]

Imported(t) ==
  /\ \/ Loaded(t, "refresh") /\ UNCHANGED <<down, askVars>>
     \/ /\ Loaded(t, "open")
        /\ down' = [down EXCEPT ![t] = FALSE]
        /\ kept' = [kept EXCEPT ![t] = Gone]
        /\ deferred' = [deferred EXCEPT ![t] = FALSE]
  /\ Import(t, file.doc)
  /\ seen' = [seen EXCEPT ![t] = @ \cup file.doc]
  /\ load' = [load EXCEPT ![t] = [NoLoad EXCEPT !.pc = "row", !.act = load[t].act]]
  /\ UNCHANGED <<fileVars, known, offer, draft, open, reported, hint, call, spent>>

\* ensureDiskBaseline: a baseline that arrived meanwhile settles it.
Fetched(t) ==
  /\ Loaded(t, "restore")
  /\ load' = [load EXCEPT ![t] = IF Unbaselined(t)
                                 THEN [NoLoad EXCEPT !.pc = "row", !.act = "restore", !.file = file]
                                 ELSE NoLoad]
  /\ UNCHANGED <<fileVars, docVars, askVars, hint, call, seen, late, spent>>

\* `client.summary`: the digest of what the file holds by now.
RowArrives(t) ==
  /\ load[t].pc = "row" /\ load[t].act \in {"refresh", "open"}
  /\ Adopt(t, file)
  /\ load' = [load EXCEPT ![t] = NoLoad]
  /\ UNCHANGED <<fileVars, screen, base, timer, down, offer, draft, open, reported, askVars,
                 hint, call, seen, late, spent>>

\* The draft says what it was derived from: then the file did not move.
Unmoved(t) == \/ load[t].file.doc = screen[t]
              \/ file # Gone /\ draft[t].base = file

RowDecides(t) ==
  /\ load[t].pc = "row" /\ load[t].act = "restore"
  /\ Adopt(t, file)
  /\ IF Unmoved(t)
     THEN /\ base' = [base EXCEPT ![t] = load[t].file.doc]
          /\ UNCHANGED <<offer, seen>>
     ELSE /\ offer' = [offer EXCEPT ![t] = load[t].file]
          /\ seen' = [seen EXCEPT ![t] = @ \cup load[t].file.doc]
          /\ UNCHANGED base
  /\ load' = [load EXCEPT ![t] = NoLoad]
  /\ UNCHANGED <<fileVars, screen, timer, down, draft, open, reported, askVars, hint, call,
                 late, spent>>

\* The file is gone, the tab has another slug, or nothing answered.
LoadFails(t) ==
  /\ \/ load[t].pc = "load" /\ (file = Gone \/ ~open[t]) /\ UNCHANGED spent
     \/ load[t].pc # "idle" /\ Spend("rare")
  /\ load' = [load EXCEPT ![t] = NoLoad]
  /\ UNCHANGED <<fileVars, docVars, askVars, hint, call, seen, late>>

-----------------------------------------------------------------------------
(***************************************************************************)
(* What the user may answer, and a reload of the page.                     *)
(***************************************************************************)
Answers(t) == offer[t] # Gone /\ Spend("answers") /\ offer' = [offer EXCEPT ![t] = Gone]

\* useRestoredDraftChoice.keepDraft: the file is the baseline again.
Keep(t) ==
  /\ Answers(t)
  /\ base' = [base EXCEPT ![t] = offer[t].doc]
  /\ kept' = [kept EXCEPT ![t] = offer[t]]
  /\ deferred' = [deferred EXCEPT ![t] = FALSE]
  /\ UNCHANGED <<fileVars, screen, known, timer, down, draft, open, reported, hint, load,
                 call, seen, late>>

\* takeFile
Take(t) ==
  /\ Answers(t)
  /\ Import(t, offer[t].doc)
  /\ kept' = [kept EXCEPT ![t] = Gone]
  /\ deferred' = [deferred EXCEPT ![t] = FALSE]
  /\ UNCHANGED <<fileVars, known, down, draft, open, reported, hint, load, call, seen>>

Defer(t) ==
  /\ Answers(t)
  /\ deferred' = [deferred EXCEPT ![t] = TRUE]
  /\ UNCHANGED <<fileVars, screen, base, known, timer, down, draft, open, reported, kept,
                 hint, load, call, seen, late>>

\* Open from Workflows, the door the conflict notice names.  The draft of a
\* refused tab is not restored over the file.
OpenAgain(t) ==
  /\ down[t] /\ open[t] /\ offer[t] = Gone
  /\ load[t].pc = "idle"
  /\ Spend("answers")
  /\ load' = [load EXCEPT ![t] = [NoLoad EXCEPT !.pc = "load", !.act = "open"]]
  /\ UNCHANGED <<fileVars, docVars, askVars, hint, call, seen, late>>

\* Only the draft survives; restoring it is an edit to onChange's listener.
Reload(t) ==
  /\ open[t] /\ draft[t].doc # NoDoc
  /\ Spend("rare")
  /\ screen' = [screen EXCEPT ![t] = draft[t].doc]
  /\ base' = [base EXCEPT ![t] = NoDoc]
  /\ known' = [known EXCEPT ![t] = Gone]
  /\ timer' = [timer EXCEPT ![t] = TRUE]
  /\ down' = [down EXCEPT ![t] = FALSE]
  /\ offer' = [offer EXCEPT ![t] = Gone]
  /\ reported' = [reported EXCEPT ![t] = FALSE]
  /\ kept' = [kept EXCEPT ![t] = Gone]
  /\ deferred' = [deferred EXCEPT ![t] = FALSE]
  /\ hint' = [hint EXCEPT ![t] = {}]
  /\ load' = [load EXCEPT ![t] = [NoLoad EXCEPT !.pc = "load", !.act = "restore"]]
  /\ call' = [call EXCEPT ![t] = [i \in Slots |-> [call[t][i] EXCEPT !.home = @ /\ call[t][i].pc = "idle"]]]
  /\ Crosses(t)
  /\ UNCHANGED <<fileVars, draft, open, seen>>

-----------------------------------------------------------------------------
\* Every tab has just imported the file; its summary is on the way.
Init ==
  /\ file = [doc |-> {}, write |-> 0]
  /\ publisher = NoDoc /\ landed = {}
  /\ screen = [t \in Tabs |-> {}]
  /\ base = [t \in Tabs |-> {}]
  /\ known = [t \in Tabs |-> Gone]
  /\ timer = [t \in Tabs |-> TRUE]
  /\ down = [t \in Tabs |-> FALSE]
  /\ offer = [t \in Tabs |-> Gone]
  /\ draft = [t \in Tabs |-> [doc |-> NoDoc, base |-> Gone]]
  /\ open = [t \in Tabs |-> TRUE]
  /\ reported = [t \in Tabs |-> FALSE]
  /\ hint = [t \in Tabs |-> {}]
  /\ load = [t \in Tabs |-> [NoLoad EXCEPT !.pc = "row"]]
  /\ call = [t \in Tabs |-> [i \in Slots |-> NoCall]]
  /\ seen = [t \in Tabs |-> {}]
  /\ late = [t \in Tabs |-> {}]
  /\ kept = [t \in Tabs |-> Gone]
  /\ deferred = [t \in Tabs |-> FALSE]
  /\ spent = [what \in DOMAIN Bounds |-> 0]

Serve(t, i) == Check(t, i) \/ Write(t, i) \/ Receipt(t, i)
Hearing(t, i) == \/ AutosaveLands(t, i) \/ AutosaveRefused(t, i) \/ ButtonLands(t, i)
                 \/ ButtonRow(t, i) \/ Unheard(t, i)
Fire(t) == FireQuietly(t) \/ \E i \in Slots : FireSave(t, i)
Listen(t) == Hear(t) \/ Abandon(t) \/ Ignore(t) \/ React(t)
Loading(t) == \/ Offered(t) \/ Imported(t) \/ Fetched(t) \/ RowArrives(t)
              \/ RowDecides(t) \/ LoadFails(t)
User(t) == \/ Type(t) \/ Keep(t) \/ Take(t) \/ Defer(t) \/ OpenAgain(t) \/ Reload(t)
           \/ \E i \in Slots : PressSave(t, i)
Others == AgentWrites \/ PublishReads \/ PublishWrites \/ Delete

Next ==
  \/ Others
  \/ \E t \in Tabs :
       \/ User(t) \/ Fire(t) \/ Listen(t) \/ Loading(t)
       \/ \E i \in Slots : Serve(t, i) \/ Hearing(t, i) \/ SaveFails(t, i)

Spec == Init /\ [][Next]_vars

\* Requests are served and answered, timers and polls go on; nobody has to
\* type, press or answer anything.
Fairness ==
  /\ WF_vars(PublishWrites)
  /\ \A t \in Tabs :
       /\ WF_vars(Fire(t)) /\ WF_vars(Loading(t))
       /\ WF_vars(Hear(t)) /\ WF_vars(Abandon(t) \/ Ignore(t) \/ React(t))
       /\ \A i \in Slots : /\ WF_vars(Serve(t, i))
                           /\ WF_vars(Hearing(t, i) \/ SaveFails(t, i))

FairSpec == Spec /\ Fairness

-----------------------------------------------------------------------------
MaybeDigest == Files \cup {Gone}

\* Types: digests are of versions that were written, a tab loads one document
\* at a time, and no answer is heard twice.
TypeOK ==
  /\ file \in MaybeDigest
  /\ publisher \in Docs \cup {NoDoc} /\ landed \in Docs
  /\ screen \in [Tabs -> Docs] /\ base \in [Tabs -> Docs \cup {NoDoc}]
  /\ known \in [Tabs -> MaybeDigest] /\ offer \in [Tabs -> MaybeDigest]
  /\ kept \in [Tabs -> MaybeDigest]
  /\ \A f \in {timer, down, open, reported, deferred} : f \in [Tabs -> BOOLEAN]
  /\ draft \in [Tabs -> [doc : Docs \cup {NoDoc}, base : MaybeDigest]]
  /\ \A t \in Tabs : hint[t] \subseteq MaybeDigest /\ Cardinality(hint[t]) <= 1
  /\ load \in [Tabs -> [pc : {"idle", "load", "row"},
                        act : {"open", "refresh", "ask", "restore"},
                        file : MaybeDigest, typed : Docs]]
  /\ call \in [Tabs -> [Slots ->
       [pc : {"idle", "check", "write", "receipt", "answer"}, kind : {"auto", "button"},
        doc : Docs, quote : MaybeDigest, kept : MaybeDigest, got : MaybeDigest,
        result : {"none", "ok", "conflict", "missing", "row"}, home : BOOLEAN]]]
  /\ seen \in [Tabs -> Docs] /\ late \in [Tabs -> SUBSET {"others", "itself"}]
  /\ spent \in [DOMAIN Bounds -> Nat]

\* A save that quotes a version overwrites no edit its tab has not shown or
\* announced, and brings no deleted package back, unless somebody wrote in a
\* window of the tab (store.save compares, then writes; routes/workflows.py
\* reads the receipt afterwards; the tab loads, then asks for the digest).
SavesAreGuarded ==
  [][\A t \in Tabs, i \in Slots :
       (/\ call[t][i].pc = "write" /\ call'[t][i].pc = "receipt"
        /\ call[t][i].quote # Gone
        /\ file' # file)
       => "others" \in late[t] \/ (file # Gone /\ file.doc \subseteq seen[t])]_vars

\* A refresh takes nothing off the canvas that never reached the file, save
\* what was typed while it waited for the document.
EditsSurvive ==
  [][\A t \in Tabs :
       load[t].pc = "load" /\ load[t].act = "refresh" /\ load'[t].pc = "row"
       => screen[t] \ screen'[t] \subseteq landed \cup load[t].typed]_vars

\* What a user can know of a canvas that differs from the file.
Told(t) == \/ offer[t] # Gone \/ down[t] \/ reported[t] \/ deferred[t] \/ kept[t] # Gone
Settled(t) == ~open[t] \/ Told(t) \/ (file # Gone /\ screen[t] = file.doc)

\* Once everybody has stopped, the canvas of a tab shows the file, or its
\* user has been told that it does not.
TabsSettle == \A t \in Tabs : <>[](Settled(t) \/ late[t] # {})

\* restoredDraftChoiceCopy.ts: "Keeping your unsaved edits. The next change
\* writes them over it on disk": the save of that change is not refused while
\* the file is the one the user chose to overwrite.
KeptIsWritten ==
  [][\A t \in Tabs, i \in Slots :
       call[t][i].pc = "check" /\ call'[t][i].result = "conflict"
       => call[t][i].kept # file]_vars

=============================================================================
