--------------------------- MODULE MCSigningKeys ---------------------------
(* Two requests and two keys: tokens with and without a key id, shared   *)
(* secret, a bad one and none.                                             *)
EXTENDS SigningKeys

MCTokens ==
  {Token("signed", "k1", "k1", TRUE, "u"), Token("signed", "k2", "k2", TRUE, "v"), Token("signed", NoKid, "k2", TRUE, "v"),
   Token("HS256", NoKid, "k1", FALSE, "u"), NoToken}
=============================================================================
