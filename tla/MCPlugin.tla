------------------------------ MODULE MCPlugin ------------------------------
(* Small instances of Plugin: a valid and an invalid URL, two keys. *)
EXTENDS Plugin

MCUrls      == {"http://a", "bad"}
MCValidUrls == {"http://a"}
MCKeys      == {"k1", "k2"}
MCCovers    == {"large", "small"}

\* a full configuration and none
MCHostConfigs == {[url |-> "http://a", key |-> "k1", cover |-> ""],
                  [url |-> "", key |-> "", cover |-> ""]}
\* a kept key, a new key, an invalid URL
MCBodies == {[url |-> "http://a", key |-> "", cover |-> "small"],
             [url |-> "", key |-> "k2", cover |-> ""],
             [url |-> "bad", key |-> "", cover |-> ""]}
=============================================================================
