---------------------------- MODULE MCProxyCache ----------------------------
(***************************************************************************)
(* Instances of ProxyCache.                                                *)
(*   MCProxyCache.cfg     three threads, one key, room for one entry: two  *)
(*                        readers and a writer, hits on the same node, and *)
(*                        every addition evicts; weak fairness             *)
(*   MCProxyCacheLru.cfg  two threads, entries of different sizes, some    *)
(*                        evicting two others and some too long to cache   *)
(* The nodes are interchangeable, and so are the threads and the keys: no  *)
(* definition tells one from another except by equality.  The run without  *)
(* liveness properties uses this symmetry.                                 *)
(***************************************************************************)
EXTENDS ProxyCacheLists, TLC

Symmetry ==
    Permutations(Threads) \cup Permutations(Nodes) \cup Permutations(Keys)
=============================================================================
