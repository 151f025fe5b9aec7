----------------------------- MODULE MCSession -----------------------------
(***************************************************************************)
(* Bounded instances of Session.  MaxLocal bounds the identities, so three *)
(* of them make every combination of edits, undos and redos of that        *)
(* length; MaxFaults bounds the failed writes of a behaviour, kills and    *)
(* power losses are not bounded.                                           *)
(***************************************************************************)
EXTENDS Session

FileFailures(files) == files \X {"failed", "uncertain"}

LogFailures == {"push"} \X {"refused", "queued", "failed"}

\* Every durable write fails in every way it can.
AllFailures ==
    FileFailures({"counter", "pending", "snapshot", "clear"}) \cup LogFailures

\* An intent that is stored is stored for good.
IntentIsCertain == AllFailures \ {<<"pending", "uncertain">>}

\* Only the intent fails: it is visible and not confirmed.
IntentUncertain == {<<"pending", "uncertain">>}
=============================================================================
