------------------------------ MODULE Informer ------------------------------
(***************************************************************************)
(* What the API server and the manager's informer cache do with one        *)
(* object, as the code under src/ relies on it (external: client-go and    *)
(* controller-runtime).  An object is a non-empty sequence of versions:    *)
(* the first is the one the cache serves to Get and List, the last is the  *)
(* one stored in the API server, and those between are watch events that   *)
(* have not reached the cache yet.  A watch that breaks resumes where it    *)
(* was, so no event of a running manager is lost or reordered.             *)
(***************************************************************************)
EXTENDS Integers, Sequences

Stream(S) == Seq(S) \ {<< >>}

Cached(s) == s[1]
Live(s) == s[Len(s)]
Synced(s) == Len(s) = 1

\* A write that the API server accepts.
Commit(s, v) == Append(s, v)

\* The next watch event reaches the cache.
Delivered(s) == Tail(s)

\* A manager that starts lists what is stored.
Relisted(s) == << Live(s) >>
=============================================================================
