----------------------------- MODULE CookieFile -----------------------------
(***************************************************************************)
(* What the node's cookie file may hold, for CookieAuth, which reads it    *)
(* (internal/rpc/auth.go), and for RpcClient, which uses what was read.    *)
(* The node writes user:password in one line, in steps, as any writer that *)
(* truncates the file first would.                                         *)
(***************************************************************************)
EXTENDS Naturals

CONSTANT MaxStarts   \* bound: how often the node starts, and writes a cookie

ASSUME FileAssumption == MaxStarts \in Nat

\* The cookie of some start of the node, written out in full, up to somewhere
\* in the password, or not even to the colon; or no file.
Forms   == {"missing", "no_colon", "cut", "whole"}
Content == [cookie : 0 .. MaxStarts, form : Forms]

Cookie(start, form) == [cookie |-> start, form |-> form]
Empty == Cookie(0, "missing")

\* What strings.Cut makes a user and a password of.
Usable == { v \in Content : v.form \in {"cut", "whole"} }
=============================================================================
