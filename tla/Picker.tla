-------------------------------- MODULE Picker --------------------------------
(***************************************************************************)
(* How restore finds the snapshot it was asked for (selectSnapshot in      *)
(* internal/cli/restore.go): by its id, or with the interactive picker     *)
(* (internal/tui/picker.go), a list with a cursor and a filter.            *)
(*                                                                         *)
(* The list is the component of the bubbles library, modelled from how the *)
(* picker uses it: a filter shows the items that match, best first; its    *)
(* matches are computed on the side and arrive as a message, possibly      *)
(* after later keys; Index counts among the items that are shown.          *)
(*                                                                         *)
(* restore works on the copy of the manifest it has read, so the manifest  *)
(* rests here while the picker is open.                                    *)
(*                                                                         *)
(* Simplifications: a text is what it matches; pages, the size of the      *)
(* window and all that is drawn are left out.  An id is the timestamp it   *)
(* is made of.                                                             *)
(***************************************************************************)
EXTENDS Manifest

CONSTANTS
  MaxListed,  \* bound: the entries of a manifest that is listed
  MaxFlight   \* bound: matches under way at once

ASSUME PickerBounds == MaxListed \in Nat /\ MaxFlight \in Nat

VARIABLE ui  \* the picker

pvars == <<vars, ui>>

\* sorted is what restore indexes, in its order; matched the positions that the
\* filter shows; found the entry that is returned, in a set, seen the one that
\* was highlighted then.
Off == [at |-> "off", sorted |-> <<>>, filter |-> "none", typed |-> FALSE,
        matched |-> <<>>, cursor |-> 0, flight |-> {}, found |-> {}, seen |-> {}]

\* The matches a text may have among n items.
Rankings(n) == {r \in UNION {[1 .. k -> 1 .. n] : k \in 0 .. n} : IsInjective(r)}
All(n) == [i \in 1 .. n |-> i]

Visible == IF ui.filter = "none" THEN All(Len(ui.sorted)) ELSE ui.matched

Highlighted ==
  IF ui.cursor < Len(Visible) THEN {ui.sorted[Visible[ui.cursor + 1]]} ELSE {}

PickerInit == Init /\ ui = Off

Open(u) == ui.at = "open" /\ ui' = u /\ UNCHANGED vars

-----------------------------------------------------------------------------
(* restore.                                                                *)

\* The first entry that has the id.
FindByID(m, t) ==
  LET i == SelectInSeq(m, LAMBDA s : s.ts = t) IN IF i = 0 THEN {} ELSE {m[i]}

SelectByID ==
  /\ ui.at = "off"
  /\ \E t \in Times : ui' = [Off EXCEPT !.at = "done", !.found = FindByID(snaps, t),
                                        !.seen = {s \in ToSet(snaps) : s.ts = t}]
  /\ UNCHANGED vars

\* The picker opens on the entries, newest first.
SelectByPicker ==
  /\ ui.at = "off"
  /\ Len(snaps) \in 1 .. MaxListed
  /\ ui' = [Off EXCEPT !.at = "open", !.sorted = SortByTimestampDesc(snaps)]
  /\ UNCHANGED vars

\* Variant: the index is used on the manifest as it is.
Enter_Unsorted ==
  Open([ui EXCEPT !.at = "done", !.found = {snaps[ui.cursor + 1]}, !.seen = Highlighted])

\* Enter or space, also while a filter is typed: Pick returns the list's Index,
\* restore takes the entry there.
Enter ==
  Open([ui EXCEPT !.at = "done", !.found = {ui.sorted[ui.cursor + 1]}, !.seen = Highlighted])

\* q, esc or ctrl+c, also while a filter is typed.
Cancel == Open([Off EXCEPT !.at = "done"])

\* The command is over; another may follow.
Close == ui.at = "done" /\ ui' = Off /\ UNCHANGED vars

-----------------------------------------------------------------------------
(* Keys that are left to the list, and its matches.                        *)

\* Variant: one line too far.
Move_Past ==
  ui.filter # "typing" /\ \E c \in 0 .. Len(Visible) : Open([ui EXCEPT !.cursor = c])

Move ==
  ui.filter # "typing" /\ \E c \in 0 .. Len(Visible) - 1 : Open([ui EXCEPT !.cursor = c])

\* "/": the cursor goes to the top.
EditFilter ==
  /\ ui.filter # "typing"
  /\ Open([ui EXCEPT !.filter = "typing", !.cursor = 0,
                     !.matched = IF ui.typed THEN @ ELSE All(Len(ui.sorted))])

\* The text changes, to none at all or to one with the matches r.
Type ==
  /\ ui.filter = "typing" /\ Cardinality(ui.flight) < MaxFlight
  /\ \/ Open([ui EXCEPT !.typed = FALSE, !.flight = @ \cup {All(Len(ui.sorted))}])
     \/ \E r \in Rankings(Len(ui.sorted)) :
          Open([ui EXCEPT !.typed = TRUE, !.flight = @ \cup {r}])

Matches ==
  \E r \in ui.flight : Open([ui EXCEPT !.matched = r, !.flight = @ \ {r}])

\* Tab or an arrow: the filter stays; one that matches nothing goes.
AcceptFilter ==
  /\ ui.filter = "typing" /\ ui.typed
  /\ Open(IF ui.matched = <<>> THEN [ui EXCEPT !.filter = "none", !.typed = FALSE]
                               ELSE [ui EXCEPT !.filter = "applied"])

PickerNext ==
  \/ ui = Off /\ Next /\ UNCHANGED ui
  \/ SelectByID \/ SelectByPicker \/ Enter \/ Cancel \/ Close
  \/ Move \/ EditFilter \/ Type \/ Matches \/ AcceptFilter

PickerSpec == PickerInit /\ [][PickerNext]_pvars

-----------------------------------------------------------------------------
(* Properties.                                                             *)

\* The index that Pick returns is one of restore's slice, whatever filter was
\* typed, applied or emptied and however late its matches came: the slice
\* expression sorted[idx] never panics.
IndexInRange == ui.at = "open" => ui.cursor < Len(ui.sorted)

\* The entry that is restored is the one that the picker highlighted, or the
\* one that has the id that was asked for (the first, if a coarse clock gave it
\* to several), as long as no filter is shown: sorting, indexing and the
\* highlight agree on the order.
RestoresShownUnfiltered ==
  ui.at = "done" /\ ui.filter = "none" =>
    ui.found \subseteq ui.seen /\ (ui.seen # {} => ui.found # {})

\* The same with a filter, when it leaves something to highlight.  "Pick ...
\* returns the index of the selected item" (picker.go:44).
RestoresShown == ui.at = "done" /\ ui.seen # {} => ui.found \subseteq ui.seen
=============================================================================
