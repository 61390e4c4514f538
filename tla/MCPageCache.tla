---------------------------- MODULE MCPageCache ----------------------------
EXTENDS PageCache

CONSTANTS r1, r2, noReq

MCRequests == {r1, r2}

(* Every chain: with or without SiteCache, both decorators, both stores.   *)
MCAllConfigs == Config

(* The decorators alone, as the example program wires CachePage.           *)
MCRouteConfigs == {c \in Config : ~c.site}
=============================================================================
