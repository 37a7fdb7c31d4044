--------------------------- MODULE MCConfigEditor ---------------------------
EXTENDS ConfigEditor
CONSTANTS system, service, hostname, ciphers, enabled, v1, v2
LeavesDef == (system :> <<hostname, ciphers>>) @@ (service :> <<enabled>>)
ChoiceDef == (hostname :> {v1}) @@ (ciphers :> {v1, v2}) @@ (enabled :> {v1})
StartDef ==
  {[nodes |-> {}, val |-> [l \in {hostname, ciphers, enabled} |-> {}]],
   [nodes |-> {system},
    val |-> (hostname :> {v1}) @@ (ciphers :> {v1}) @@ (enabled :> {})]}
============================================================================
