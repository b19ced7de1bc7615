--------------------------- MODULE MCPrefixCache ---------------------------
(***************************************************************************)
(* Small constants for PrefixCache: a plain and a hybrid model, prefixes   *)
(* of one and of two chunks, messages of one and of two tokens.            *)
(***************************************************************************)
EXTENDS PrefixCache

MCModels == { <<"attention", "attention">>, <<"attention", "linear">> }
MCPrefixes == { <<1, 2>>, <<1, 2, 3>> }
MCMessages == { <<4>>, <<5, 5>> }
=============================================================================
