------------------------------ MODULE Outcomes ------------------------------
(***************************************************************************)
(* Result<_, _>: a value, or the kind of an error.                         *)
(***************************************************************************)
Ok(v) == [tag |-> "ok", val |-> v]
Err(kind) == [tag |-> "err", kind |-> kind]
IsOk(r) == r.tag = "ok"
=============================================================================
