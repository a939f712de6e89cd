----------------------------- MODULE MCEmailPush -----------------------------
(* Small instances of EmailPush for TLC. *)
EXTENDS EmailPush

CONSTANTS j1, j2, ashare, e1, e2, zh, en

MCUsers == {1, 2}
MCJobs == {j1, j2}
MCAssets == {ashare}
MCAShares == {ashare}
MCEvents == {e1}
MCHolders == {1, 2}
MCLocale == [u \in MCUsers |-> IF u = 1 THEN zh ELSE en]
MCLocales == {zh, en}

(* Entries that meet: those that share the tracker, the polls of several   *)
(* hours, the suggestions of 23:30 with the briefing of 00:30; and the     *)
(* weekly insight, which counts nothing.                                   *)
MCMixes == {{"score", "close"}, {"poll"}, {"briefing", "holding"}, {"weekly"}}
=============================================================================
