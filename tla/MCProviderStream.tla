-------------------------- MODULE MCProviderStream --------------------------
(***************************************************************************)
(* Texts of up to MaxPieces pieces: ordinary text, a call, the markers and *)
(* the beginning that they share.                                          *)
(***************************************************************************)
EXTENDS ProviderStream, TLC

CONSTANT MaxPieces

Pieces == {<<"t">>, <<"j">>, <<"<", "f">>, Begin, End}
Of(n) == {FlattenSeq(s) : s \in SeqOf(Pieces, n)}
MCContents == Of(MaxPieces)
Shorter == Of(MaxPieces - 1)

\* An id in the server's own way, and those that the provider gives itself.
MCServerIds == {<<"server", 1>>, <<"call", 1>>, <<"call", 2>>}

\* One call beside a text, or two beside one that is a piece shorter.
Bound == made <= 1 \/ text \o left \in Shorter
=============================================================================
