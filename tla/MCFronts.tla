------------------------------ MODULE MCFronts ------------------------------
EXTENDS Fronts

Env(n, f, c) == [name |-> n, front |-> f, cmd |-> c]
\* Every way the environment can choose, and the ways it can be wrong.
MCEnvs ==
  {Env("unset", "unset", "unset"), Env("direct", "unset", "unset"), Env("nym", "ok", "unset"),
   Env("nym", "bad", "ok"), Env("tor", "unset", "ok"), Env("tor", "unset", "bad"),
   Env("hopr", "unset", "unset"), Env("nym", "unset", "unset")}
\* A sidecar is configured, and the substrate is direct or has no name.
MCSidecarOnly == {Env("unset", "ok", "unset"), Env("direct", "unset", "ok")}

=============================================================================
