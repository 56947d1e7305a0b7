--------------------------- MODULE MCBrowserRelay ---------------------------
(***************************************************************************)
(* Two pages: a search page with a form and nine equal links, so that the  *)
(* refs e2 to e10 have one signature, and the page that form and those     *)
(* links lead to, which may fail to load and then has a link only, and has *)
(* the same search box in a form of its own, and a form that is not GET.   *)
(***************************************************************************)
EXTENDS BrowserRelay, TLC

Box(f)       == [sig |-> "box", role |-> "searchbox", href |-> None, form |-> f, submit |-> FALSE]
Link(sig, u) == [sig |-> sig, role |-> "link", href |-> u, form |-> None, submit |-> FALSE]
Button(f)    == [sig |-> "go", role |-> "button", href |-> None, form |-> f, submit |-> TRUE]

MCUrls     == {"search", "results"}
MCElements == [u \in MCUrls |-> [html \in BOOLEAN |->
    CASE u = "search"             -> [i \in 1 .. 9 |-> Link("link", "results")] \o <<Box(1)>>
      [] u = "results" /\ html   -> <<Box(1), Button(2)>>
      [] u = "results" /\ ~html  -> <<Link("more", "search")>>]]
MCForms    == [u \in MCUrls |->
    CASE u = "search"  -> <<[action |-> "results", method |-> "get"]>>
      [] u = "results" -> <<[action |-> "search", method |-> "get"],
                            [action |-> "results", method |-> "post"]>>]
MCLoads    == [u \in MCUrls |->
    CASE u = "search" -> {TRUE} [] u = "results" -> BOOLEAN]

\* The ids up to MaxRef \in 10 .. 19 by their texts: 1, 10, 11, ..., 2, ..., 9.
MCMapOrder == [n \in 1 .. MaxRef |->
    IF n = 1 THEN 1 ELSE IF n > 9 THEN n - 8 ELSE n + MaxRef - 9]

Symmetry == Permutations(Procs)
=============================================================================
