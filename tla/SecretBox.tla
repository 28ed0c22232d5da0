---- MODULE SecretBox ----
(***************************************************************************)
(* Secret and public-key boxes of src/Sources/tweetnacl.c as what they     *)
(* compose: a stream, an authenticator and a shared key.  A cell is        *)
(* sixteen bytes, written as the set of the unknowns xored into it: zero   *)
(* is {}, xor is the symmetric difference.  The stream, the authenticator  *)
(* and the key agreement are free symbols here; Salsa20, Poly1305 and      *)
(* Ed25519 say what the code computes for them.                            *)
(***************************************************************************)
EXTENDS Integers, Sequences

XorCells(x, y) == [i \in DOMAIN x |-> (x[i] \ y[i]) \union (y[i] \ x[i])]

crypto_stream(d, n, k) == [i \in 1 .. d |-> {<<"key", k, "nonce", n, "cell", i>>}]
crypto_stream_xor(m, n, k) == XorCells(m, crypto_stream(Len(m), n, k))
crypto_onetimeauth(m, k) == {<<"tag", m, k>>}

Failed == <<"failed">>

\* The cells of m from the third on, and the two before them.
Body(m) == SubSeq(m, 3, Len(m))
FirstTwo(m) == SubSeq(m, 1, 2)

\* The first two cells of m are zero, so the stream leaves its first two
\* cells there: they are the authenticator's key, and the result keeps
\* neither.
crypto_secretbox(m, n, k) ==
  IF Len(m) < 2 THEN Failed
  ELSE LET c == crypto_stream_xor(m, n, k)
       IN  [c EXCEPT ![1] = {}, ![2] = crypto_onetimeauth(Body(c), FirstTwo(c))]

\* Mutant: opens whatever the stream decrypts.
crypto_secretbox_open_unchecked(c, n, k) ==
  IF Len(c) < 2 THEN Failed ELSE [crypto_stream_xor(c, n, k) EXCEPT ![1] = {}, ![2] = {}]

crypto_secretbox_open(c, n, k) ==
  IF Len(c) < 2 THEN Failed
  ELSE LET x == crypto_stream(2, n, k)
       IN  IF c[2] # crypto_onetimeauth(Body(c), x) THEN Failed
           ELSE [crypto_stream_xor(c, n, k) EXCEPT ![1] = {}, ![2] = {}]

\* The key of a secret x, and what x and the key of y both compute.
crypto_scalarmult_base(x) == {x}
crypto_scalarmult(x, y) == {x} \union y

crypto_box_beforenm(y, x) == <<"hsalsa20", crypto_scalarmult(x, y)>>
crypto_box_afternm(m, n, k) == crypto_secretbox(m, n, k)
crypto_box_open_afternm(c, n, k) == crypto_secretbox_open(c, n, k)
crypto_box(m, n, y, x) == crypto_box_afternm(m, n, crypto_box_beforenm(y, x))
crypto_box_open(c, n, y, x) == crypto_box_open_afternm(c, n, crypto_box_beforenm(y, x))
====
