----------------------------- MODULE MCRpcChannel -----------------------------
(* Two concurrent callers of the plugin, or a program that reuses one id    *)
(* for two different lines and repeats lines beyond the size of the cache.  *)
EXTENDS RpcChannel

MCOtherLines == [id : {1}, op : {"status", "mutate"}, rev : {0}]
                \cup [id : {2, 3}, op : {"mutate"}, rev : {0}]
=============================================================================
