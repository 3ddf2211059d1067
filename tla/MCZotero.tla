------------------------------ MODULE MCZotero ------------------------------
(* Two items, of which Zotero has one at first. *)
EXTENDS Zotero

MCScenarios == {{"people", "faults"}, {"by hand", "faults", "quiet"}, {"faults", "disconnects"}}
=============================================================================
