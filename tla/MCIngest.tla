------------------------------ MODULE MCIngest ------------------------------
(* Instance of Ingest for TLC: five configurations, which differ in their  *)
(* signature provider, script, schema, forwarding and alerts, the edits of *)
(* eleven scripts, and senders with and without the secrets.               *)
EXTENDS Ingest

CONSTANTS r1, s1, s2

OneRequest == {r1}

Plain ==
  [provider |-> Null, secret |-> Null, headerName |-> FALSE, timestampKey |-> FALSE,
   algorithm |-> TRUE,
   script |-> "none", schema |-> "none", forward |-> TRUE, channels |-> {},
   alertOn |-> {}]
Stripe ==
  [provider |-> "stripe", secret |-> s1, headerName |-> FALSE, timestampKey |-> FALSE,
   algorithm |-> TRUE,
   script |-> "broken", schema |-> "ok", forward |-> FALSE,
   channels |-> {"slack", "discord"}, alertOn |-> {"signature_invalid"}]
Custom ==
  [provider |-> "custom", secret |-> s2, headerName |-> TRUE, timestampKey |-> TRUE,
   algorithm |-> TRUE,
   script |-> "ok", schema |-> "none", forward |-> TRUE, channels |-> {"slack"},
   alertOn |-> {"4xx", "5xx"}]
Unverifiable ==
  [provider |-> "custom", secret |-> s2, headerName |-> TRUE, timestampKey |-> FALSE,
   algorithm |-> FALSE,
   script |-> "ok", schema |-> "none", forward |-> FALSE, channels |-> {},
   alertOn |-> {}]
Unusable ==
  [provider |-> "github", secret |-> s2, headerName |-> FALSE, timestampKey |-> FALSE,
   algorithm |-> TRUE,
   script |-> "ok", schema |-> "broken", forward |-> TRUE, channels |-> {},
   alertOn |-> {}]

Configurations == {Plain, Stripe, Custom, Unverifiable, Unusable}

Signed(for, secret, stamp) ==
  [for |-> for, secret |-> secret, wellFormed |-> TRUE, stamp |-> stamp]

SomeSenders == {Null, Signed("stripe", s1, "fresh"), Signed("stripe", s1, "stale"),
                Signed("custom", s1, "fresh"), Signed("custom", s2, "fresh")}

Edit(kind, status, body, signature) ==
  [kind |-> kind, status |-> status, body |-> body, signature |-> signature]

SomeEdits ==
  {Edit("edited", Null, "kept", "kept"), Edit("edited", 200, "kept", "kept"),
   Edit("edited", Null, "rewritten", "kept"), Edit("edited", 503, "kept", "invalid"),
   Edit("edited", Null, "kept", "deleted"), Edit("edited", 200, "rewritten", "valid"),
   Edit("moved", Null, "kept", "kept"), Edit("anonymous", 200, "kept", "kept"),
   Edit("discarded", Null, "rewritten", "valid"),
   Edit("unsendable", Null, "kept", "kept"),
   Edit("unserializable", Null, "kept", "kept")}
=============================================================================
