--------------------------- MODULE BrowserRelay ---------------------------
(***************************************************************************)
(* The native backend of the browser relay                                 *)
(* (src/browser/BrowserRelay.cpp): targets (tabs), the page each is at,    *)
(* and the refs by which a client names the elements of a page.            *)
(*                                                                         *)
(* Every request takes the mutex of its process, reads the whole state     *)
(* file, works on that copy and writes the file whole.  The gateway is one *)
(* such process; a `nexaclaw browser` command that has no answer from it   *)
(* within 3 s is another, and between processes there is no lock.          *)
(*                                                                         *)
(* They even share the temporary file of a save, whose writes are not      *)
(* checked: a save may leave a file that does not parse, and such a file   *)
(* reads as the empty state.                                               *)
(*                                                                         *)
(* A url stands for the page it leads to; what a control's text is, is     *)
(* reduced to where it was typed.  Ids e1, e2, ... and native-1, ... are   *)
(* their numbers, and MapOrder is the order of their texts, by which a     *)
(* std::map is walked: e10 comes before e2.  A file that two processes     *)
(* have written at once is taken not to parse.                             *)
(***************************************************************************)
EXTENDS Integers, FiniteSets, Sequences

CONSTANTS
    Procs,       \* processes that use the state file
    Urls,        \* urls
    Elements,    \* Elements[u][html]: the elements of the page at u, in order
    Forms,       \* Forms[u]: its forms in order, each [action, method]
    Loads,       \* Loads[u]: the outcomes of loading u: has the target html?
    Texts,       \* texts that an act.wait may look for
    None,        \* no process state, no form, no href, no target, no file
    Torn,        \* a file that does not parse
    MapOrder,    \* MapOrder[n]: the place of id n when ids are sorted as texts
    MaxTargets,  \* bound of the model: targets opened
    MaxRef,      \* bound of the model: the number of a ref
    MaxRequests  \* bound of the model: requests that take the mutex

Ids == 1 .. MaxTargets

\* What is parsed from a page.  The signature of an element begins with its tag
\* and a bar, so that none is "doc".  A page without html has the elements that
\* the url alone gives it.
Element == [sig : STRING \ {"doc"}, role : STRING, href : Urls \cup {None},
            form : Nat \cup {None}, submit : BOOLEAN]

ASSUME BrowserAssumption ==
    /\ \A u \in Urls :
          /\ Loads[u] \subseteq BOOLEAN /\ Loads[u] # {}
          /\ \A html \in BOOLEAN : Elements[u][html] \in Seq(Element)
          /\ \A f \in DOMAIN Forms[u] : Forms[u][f].action \in Urls
    /\ MaxTargets \in Nat /\ MaxRef \in Nat /\ MaxRequests \in Nat
    /\ \A n \in Ids \cup (1 .. MaxRef) : MapOrder[n] \in 0 .. MaxTargets + MaxRef

VARIABLES
    file,     \* the state file: a state, Torn, or None when it is missing
    tmp,      \* the temporary file of a save, likewise
    copy,     \* copy[p]: what the request holding p's mutex has read, or None
    saving,   \* saving[p]: the state it saves, and into which file, or None
    wait,     \* the act.wait that polls, without the mutex; one at a time, or None
    requests  \* requests that have taken the mutex so far

vars == <<file, tmp, copy, saving, wait, requests>>

TextRoles == {"textbox", "searchbox", "combobox"}
Empty     == [counter |-> 0, last |-> None, targets |-> <<>>]

\* What a request finds in the state file f.
Read(f) == IF f \in {None, Torn} THEN Empty ELSE f

\* The root of every page.  It is looked up as "doc" and kept as "document", so
\* that every rebuild gives it a new number.
Document == [sig |-> "document", role |-> "document", href |-> None,
             form |-> None, submit |-> FALSE]
Key(el)  == IF el = Document THEN "doc" ELSE el.sig

Exists(st, id) == id \in DOMAIN st.targets
Largest(S) == CHOOSE x \in S : \A y \in S : y <= x

\* The first and the last of a set of ids as keys of a std::map.
FirstKey(S) == CHOOSE x \in S : \A y \in S : MapOrder[x] <= MapOrder[y]
LastKey(S)  == CHOOSE x \in S : \A y \in S : MapOrder[y] <= MapOrder[x]

\* The map f once x is assigned y.
With(f, x, y) == [z \in {x} \cup DOMAIN f |-> IF z = x THEN y ELSE f[z]]
-----------------------------------------------------------------------------
\* A variant that numbers on from the number of refs.
NextRefCount(refs) == Cardinality(DOMAIN refs) + 1

\* The first number for a new element: above every ref there is.
NextRef(refs) == Largest({0} \cup DOMAIN refs) + 1

\* A variant that keeps every value, of a control that is gone as well.
TypedKeptAll(typed, refs) == typed

\* The typed values that outlive a rebuild: those of refs that are still there.
TypedKept(typed, refs) == [r \in DOMAIN typed \cap DOMAIN refs |-> typed[r]]

\* rebuildRefs(t): an element whose signature a ref has takes that ref, the
\* last of them, as texts go, when there are several; any other element takes
\* a new one.
Rebuilt(t) ==
    LET els  == <<Document>> \o Elements[t.url][t.html]
        same == [i \in DOMAIN els |-> {r \in DOMAIN t.refs : t.refs[r].sig = Key(els[i])}]
        at   == [i \in DOMAIN els |->
                    IF same[i] # {} THEN LastKey(same[i])
                    ELSE NextRef(t.refs) + Cardinality({j \in 1 .. i - 1 : same[j] = {}})]
        refs == [r \in {at[i] : i \in DOMAIN els} |->
                    els[Largest({i \in DOMAIN els : at[i] = r})]]
    IN  [t EXCEPT !.refs = refs, !.typed = TypedKept(@, refs),
                  !.forms = IF t.html THEN Forms[t.url] ELSE <<>>]

\* applyNativeRuntimeContent and rebuildRefs for a target that goes to u.
Visits(t, u) == {Rebuilt([t EXCEPT !.url = u, !.html = h]) : h \in Loads[u]}

\* nativeSubmitFormLocked(t, f): no change when the form is not there or is
\* not a GET form.
Submits(t, f) ==
    IF f \in DOMAIN t.forms /\ t.forms[f].method = "get"
    THEN Visits(t, t.forms[f].action) ELSE {t}

\* The state with target id set to t and made the last one used.
Put(st, id, t) == [st EXCEPT !.last = id, !.targets = With(@, id, t)]
Use(st, id)    == [st EXCEPT !.last = id]

\* The target of a request that names id or, with None, the last one used.
OrLast(st, id) == IF id = None THEN st.last ELSE id
-----------------------------------------------------------------------------
Init == /\ file = None /\ tmp = None
        /\ copy = [p \in Procs |-> None] /\ saving = [p \in Procs |-> None]
        /\ wait = None /\ requests = 0

\* nativeLoadStateLocked, first in every request that takes the mutex.
Load(p) == /\ copy[p] = None /\ requests < MaxRequests
           /\ copy' = [copy EXCEPT ![p] = Read(file)]
           /\ requests' = requests + 1
           /\ UNCHANGED <<file, tmp, saving, wait>>

\* A request that has read the state and has not begun to save.
Working(p) == copy[p] # None /\ saving[p] = None

\* nativeSaveStateLocked, last in a request that succeeds, begins: it writes
\* the temporary file, which is Torn when the disk is full, when the process
\* dies meanwhile and when another process writes it too.
Saves(p, st) ==
    /\ Working(p)
    /\ tmp' \in {st, Torn}
    /\ saving' = [saving EXCEPT ![p] = [state |-> st, into |-> "tmp"]]
    /\ UNCHANGED <<file, copy, requests>>

\* The request of p is over.
Done(p) == /\ copy' = [copy EXCEPT ![p] = None]
           /\ saving' = [saving EXCEPT ![p] = None]
           /\ UNCHANGED <<wait, requests>>

\* The temporary file, whatever is in it by now, replaces the state file.
Rename(p) ==
    /\ saving[p] # None /\ saving[p].into = "tmp" /\ tmp # None
    /\ file' = tmp /\ tmp' = None
    /\ Done(p)

\* It cannot, or another process has renamed it already: the state file is
\* truncated and written in place ...
Truncate(p) ==
    /\ saving[p] # None /\ saving[p].into = "tmp"
    /\ file' = Torn
    /\ saving' = [saving EXCEPT ![p].into = "file"]
    /\ UNCHANGED <<tmp, copy, wait, requests>>

\* ... which again may fail, and is in vain when another process has replaced
\* the file since.
Overwrite(p) ==
    /\ saving[p] # None /\ saving[p].into = "file"
    /\ file' \in {saving[p].state, Torn, file}
    /\ Done(p) /\ UNCHANGED tmp

\* A request that fails, only reads, cannot open the file it should write, or
\* dies with its process at any point saves nothing more.
Leave(p) == copy[p] # None /\ Done(p) /\ UNCHANGED <<file, tmp>>

\* nativeOpen(u), and nativeNavigate without a target.
Open(p, u) ==
    /\ Working(p) /\ copy[p].counter < MaxTargets
    /\ LET id == copy[p].counter + 1
       IN \E t \in Visits([url |-> u, html |-> FALSE, refs |-> <<>>, forms |-> <<>>,
                           typed |-> <<>>], u) :
             /\ DOMAIN t.refs \subseteq 1 .. MaxRef
             /\ Saves(p, Put([copy[p] EXCEPT !.counter = id], id, t))
    /\ UNCHANGED wait

\* A request on a target of the copy, which becomes one of after.
OnTarget(p, id, after) ==
    /\ Working(p) /\ Exists(copy[p], id)
    /\ \E t \in after :
          DOMAIN t.refs \subseteq 1 .. MaxRef /\ Saves(p, Put(copy[p], id, t))
    /\ UNCHANGED wait

\* nativeNavigate(u, id).
Navigate(p, id, u) == OnTarget(p, id, Visits(copy[p].targets[id], u))

\* nativeSnapshot: of id, of the last target or else of the first one.
Snapshot(p, id) ==
    LET st == copy[p]
        at == IF id = None /\ ~Exists(st, st.last) /\ DOMAIN st.targets # {}
              THEN FirstKey(DOMAIN st.targets) ELSE OrLast(st, id)
    IN  Working(p) /\ OnTarget(p, at, {Rebuilt(st.targets[at])})

\* nativeClick(r, id): a submit control submits, a link navigates.
Click(p, id, r) ==
    /\ Working(p) /\ Exists(copy[p], id) /\ r \in DOMAIN copy[p].targets[id].refs
    /\ LET t  == copy[p].targets[id]
           el == t.refs[r]
       IN  OnTarget(p, id,
               IF el.submit /\ el.form # None THEN Submits(t, el.form)
               ELSE IF el.href # None THEN Visits(t, el.href) ELSE {t})

\* nativeType(r, id, submit): text goes to text controls only.  act.fill is
\* one such request per field.
Type(p, id, r, submit) ==
    /\ Working(p) /\ Exists(copy[p], id) /\ r \in DOMAIN copy[p].targets[id].refs
    /\ LET t     == copy[p].targets[id]
           el    == t.refs[r]
           typed == Rebuilt([t EXCEPT !.typed = With(@, r, el.sig)])
       IN  /\ el.role \in TextRoles /\ DOMAIN typed.refs \subseteq 1 .. MaxRef
           /\ OnTarget(p, id,
                  IF submit /\ el.form # None THEN Submits(typed, el.form) ELSE {typed})

\* nativeScreenshot, act.hover, act.scrollIntoView and act.resize change
\* nothing but the last target.
Touch(p, id) == /\ Working(p) /\ Exists(copy[p], OrLast(copy[p], id))
                /\ Saves(p, Use(copy[p], OrLast(copy[p], id)))
                /\ UNCHANGED wait

\* act.press Enter: submits the first form of id or else of the last target,
\* which stays the last target.
Press(p, id) ==
    /\ Working(p)
    /\ LET st == copy[p]
           at == IF Exists(st, id) THEN id ELSE st.last
       IN  /\ Exists(st, at) /\ st.targets[at].forms # <<>>
           /\ \E t \in Submits(st.targets[at], 1) :
                 /\ DOMAIN t.refs \subseteq 1 .. MaxRef
                 /\ Saves(p, [st EXCEPT !.targets[at] = t])
    /\ UNCHANGED wait

\* act.close.
Close(p, id) ==
    /\ Working(p)
    /\ LET st   == copy[p]
           at   == OrLast(st, id)
           rest == DOMAIN st.targets \ {at}
       IN  /\ Exists(st, at)
           /\ Saves(p, [st EXCEPT !.targets = [i \in rest |-> st.targets[i]],
                                  !.last = IF @ # at THEN @
                                           ELSE IF rest = {} THEN None ELSE FirstKey(rest)])
    /\ UNCHANGED wait

\* act.evaluate: the script may set location.href, the title and the value of
\* the element it was given, of whatever role; any of them rebuilds the refs.
Evaluate(p, id, r, u) ==
    /\ Working(p) /\ Exists(copy[p], id)
    /\ r \in DOMAIN copy[p].targets[id].refs \cup {None}
    /\ LET t     == copy[p].targets[id]
           typed == IF r = None THEN t ELSE [t EXCEPT !.typed = With(@, r, t.refs[r].sig)]
       IN  OnTarget(p, id,
               IF u # t.url THEN Visits(typed, u) ELSE {Rebuilt(typed)})
-----------------------------------------------------------------------------
\* What a poll of act.wait looks for: text (that of the elements it knows)
\* to be on the target, or to be gone.  A target that is closed has no text.
Holds(w) == LET st   == Read(file)
                here == /\ Exists(st, w.target)
                        /\ \E r \in DOMAIN st.targets[w.target].refs :
                              st.targets[w.target].refs[r].sig = w.text
            IN  here # w.gone

\* act.wait resolves its target once: id or else the last target.
WaitStart(id, text, gone) ==
    /\ wait = None
    /\ LET st == Read(file)
           at == IF Exists(st, id) THEN id ELSE st.last
       IN  /\ Exists(st, at)
           /\ wait' = [target |-> at, text |-> text, gone |-> gone, seen |-> FALSE]
    /\ UNCHANGED <<file, tmp, copy, saving, requests>>

\* A poll that finds what the wait is for.
WaitPoll == /\ wait # None /\ ~wait.seen /\ Holds(wait)
            /\ wait' = [wait EXCEPT !.seen = TRUE]
            /\ UNCHANGED <<file, tmp, copy, saving, requests>>

\* timeoutMs has passed: the request fails.
WaitTimeout == /\ wait # None /\ ~wait.seen
               /\ wait' = None
               /\ UNCHANGED <<file, tmp, copy, saving, requests>>

\* A variant that makes the target of the wait the last one unasked.
WaitedBlindly(st, w) == Use(st, w.target)

\* What a wait that is over saves.
Waited(st, w) == IF Exists(st, w.target) THEN Use(st, w.target) ELSE st

WaitEnd(p) == /\ Working(p) /\ wait # None /\ wait.seen
              /\ Saves(p, Waited(copy[p], wait))
              /\ wait' = None
-----------------------------------------------------------------------------
Request(p) ==
    \/ \E u \in Urls : Open(p, u)
    \/ \E id \in Ids, u \in Urls : Navigate(p, id, u)
    \/ \E id \in Ids \cup {None} : Snapshot(p, id) \/ Touch(p, id)
    \/ \E id \in Ids \cup {None} : Press(p, id) \/ Close(p, id)
    \/ \E id \in Ids, r \in 1 .. MaxRef : Click(p, id, r)
    \/ \E id \in Ids, r \in 1 .. MaxRef, submit \in BOOLEAN : Type(p, id, r, submit)
    \/ \E id \in Ids, r \in (1 .. MaxRef) \cup {None}, u \in Urls : Evaluate(p, id, r, u)

Wait ==
    \/ \E id \in Ids \cup {None}, s \in Texts, gone \in BOOLEAN : WaitStart(id, s, gone)
    \/ WaitPoll \/ WaitTimeout
    \/ \E p \in Procs : WaitEnd(p)

Save(p) == Rename(p) \/ Truncate(p) \/ Overwrite(p)

Next == (\E p \in Procs : Load(p) \/ Request(p) \/ Save(p) \/ Leave(p)) \/ Wait

Spec == Init /\ [][Next]_vars
-----------------------------------------------------------------------------
IsTarget(t) ==
    /\ DOMAIN t = {"url", "html", "refs", "forms", "typed"}
    /\ t.url \in Urls /\ t.html \in BOOLEAN
    /\ DOMAIN t.refs \subseteq 1 .. MaxRef
    /\ \A r \in DOMAIN t.refs : t.refs[r] \in Element \cup {Document}
    /\ t.forms \in {Forms[u] : u \in Urls} \cup {<<>>}

\* The targets have numbers that were given out.
IsState(st) ==
    /\ DOMAIN st = {"counter", "last", "targets"}
    /\ st.counter \in 0 .. MaxTargets /\ st.last \in Ids \cup {None}
    /\ DOMAIN st.targets \subseteq 1 .. st.counter
    /\ \A id \in DOMAIN st.targets : IsTarget(st.targets[id])

IsFile(f) == f \in {None, Torn} \/ IsState(f)

\* Every variable has its type.
TypeOK ==
    /\ IsFile(file) /\ IsFile(tmp)
    /\ DOMAIN copy = Procs /\ DOMAIN saving = Procs
    /\ \A p \in Procs : /\ copy[p] = None \/ IsState(copy[p])
                        /\ \/ saving[p] = None
                           \/ /\ DOMAIN saving[p] = {"state", "into"}
                              /\ IsState(saving[p].state) /\ saving[p].into \in {"tmp", "file"}
    /\ requests \in 0 .. MaxRequests
    /\ wait \in [target : Ids, text : Texts, gone : BOOLEAN, seen : BOOLEAN] \cup {None}

\* Refs that may follow others: a number in both names an element with the same
\* signature, a new one is above all there were, and the highest never falls.
MeanTheSame(old, new) ==
    /\ \A r \in DOMAIN old \cap DOMAIN new : new[r].sig = old[r].sig
    /\ \A r \in DOMAIN new \ DOMAIN old : r > Largest(DOMAIN old)
    /\ Largest(DOMAIN new) >= Largest(DOMAIN old)

\* A ref never comes to mean another element: when a save has put its state into
\* the file, then in every target the numbers that its request found in the file
\* mean the same, whatever the request did, over one page or several, and none
\* is given out again.  So numbers keep their meaning as long as each request
\* finds what the one before it saved.  They do not when one process undoes the
\* save of another, and not when the file is torn, which starts the numbers
\* again.  Rebuilding the refs (rebuildRefs) is what must keep this.
RefsKeepTheirMeaning ==
    [][\A p \in Procs :
          (saving[p] # None /\ saving'[p] = None /\ file' = saving[p].state) =>
             \A id \in DOMAIN copy[p].targets \cap DOMAIN file'.targets :
                MeanTheSame(copy[p].targets[id].refs, file'.targets[id].refs)]_vars

\* A typed value is shown and submitted only for the element it was typed
\* into: it goes when its control goes, on every way a target changes its page,
\* in the file and in the copies of requests under way.
TypedWhereItWas ==
    \A st \in ({Read(file)} \cup {copy[p] : p \in Procs}) \ {None} :
       \A id \in DOMAIN st.targets :
          LET t == st.targets[id]
          IN  \A r \in DOMAIN t.typed : r \in DOMAIN t.refs /\ t.refs[r].sig = t.typed[r]

\* Whatever is read from the state file names an existing target as the active
\* one, unless there is none: also when the target of a wait is closed while it
\* polls, when the active one is closed (act.close, the end of act.wait), and
\* after two processes have written over each other's saves.
ActiveTargetExists ==
    LET st == Read(file)
    IN  IF DOMAIN st.targets = {} THEN st.last = None ELSE Exists(st, st.last)
=============================================================================
