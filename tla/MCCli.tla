------------------------------- MODULE MCCli -------------------------------
EXTENDS Cli, TLC

MCSinks == <<"stream", "tcp", "tcp">>

MCOriginal == ("almanac" :> "v0") @@ ("leap" :> "v0")
MCNew      == ("almanac" :> "v1") @@ ("catalog" :> "v1")
MCNewer    == ("catalog" :> "v2")
Signed(m, t) == [signed |-> TRUE, supported |-> TRUE, manifest |-> m, tree |-> t]
\* Two good payloads, one altered after signing, one with a file too many, one
\* whose signature does not verify.
MCPayloads ==
  {Signed(MCNew, MCNew), Signed(MCNewer, MCNewer), Signed(MCNew, MCNewer @@ MCNew),
   Signed(MCNewer, MCNewer @@ MCNew),
   [Signed(MCNew, MCNew) EXCEPT !.signed = FALSE]}
=============================================================================
