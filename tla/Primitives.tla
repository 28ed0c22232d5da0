---- MODULE Primitives ----
(***************************************************************************)
(* The C algorithms of src/Sources together, called with bounded inputs.   *)
(***************************************************************************)
EXTENDS FileDiffs, Boxes, FiniteSets

CONSTANTS
  WordBits,                        \* in a word: 32 or 64 in the code
  ChunkBlocks,                     \* in a chunk of BLAKE3: 16 in the code
  Pattern(_),                      \* an input of bytes of so many bits
  Key, Nonce24,                    \* of the stream
  Blake2bLengths, Blake3Lengths, Sha512Lengths, StreamLengths,
  TagKeys, TagMessages,            \* crypto_onetimeauth
  Elements,                        \* the field of the small curve
  Seeds, Texts                     \* its keys and messages

B2 == INSTANCE Blake2b WITH W <- WordBits
B3 == INSTANCE Blake3 WITH W <- WordBits
Salsa == INSTANCE Salsa20 WITH W <- WordBits
Sha == INSTANCE Sha512 WITH W <- WordBits
Auth == INSTANCE Poly1305 WITH W <- 3, N <- 5

\* The inputs of SHA-512 are bytes, and the high word of their length in bits
\* fits the one byte crypto_hash() writes of it, as any length of 64 bits does.
ASSUME SizesAssumption ==
  /\ WordBits \in {8, 16, 32, 64}
  /\ ChunkBlocks \in Nat \ {0}
  /\ Blake2bLengths \subseteq Nat /\ Blake3Lengths \subseteq Nat
  /\ Sha512Lengths \subseteq Nat /\ StreamLengths \subseteq Nat
  /\ 0 \in DOMAIN Pattern(WordBits \div 4)
  /\ \A n \in Sha512Lengths :
       /\ (n * (WordBits \div 8)) \div Sha!Power[WordBits] < Sha!Power[WordBits \div 8]
       /\ \A i \in 0 .. n - 1 : Pattern(WordBits \div 8)[i] \in 0 .. Sha!Power[WordBits \div 8] - 1
  /\ Key \in [0 .. 31 -> 0 .. Sha!Power[WordBits \div 4] - 1]
  /\ Nonce24 \in [0 .. 23 -> 0 .. Sha!Power[WordBits \div 4] - 1]

\* A stand-in for SHA-512 on the small curve: any function of the digits
\* that spreads.
Spread(s) ==
  LET f[i \in 0 .. Len(s)] == IF i = 0 THEN 77 ELSE (f[i - 1] * 41 + s[i] + 13) % 9973
      v == f[Len(s)]
  IN  [i \in 1 .. 6 |-> ((v * (i + 2) * 31 + i * i * 7) \div 16) % 32]

\* p = 2^14 - 3; the group has 8 * 2069 points.
Order == 2069
Prime == 2^14 - 3
Curve == INSTANCE Ed25519 WITH
  W <- 5, N <- 3, C <- 3, InvSkip <- {2}, PowSkip <- {}, a24 <- 1254, BaseU <- 4,
  D <- 247, X <- 709, Y <- 6553, I <- 181, L <- [i \in 0 .. 2 |-> <<21, 0, 2>>[i + 1]],
  Settled <- 2, Hash <- Spread

CallBlake2b == \E n \in Blake2bLengths : Call("blake2b256", n)
ReturnBlake2b == Called("blake2b256") /\ Returns(B2!blake2b256(Pattern(WordBits \div 8), call.args))

CallBlake3 == \E n \in Blake3Lengths : Call("blake3_256", n)
ReturnBlake3 == Called("blake3_256") /\ Returns(B3!blake3_256(Pattern(WordBits \div 4), call.args))

CallSha512 == \E n \in Sha512Lengths : Call("crypto_hash", n)
ReturnSha512 == Called("crypto_hash") /\ Returns(Sha!crypto_hash(Pattern(WordBits \div 8), call.args))

CallStream == \E n \in StreamLengths : Call("crypto_stream_xor", n)
ReturnStream ==
  /\ Called("crypto_stream_xor")
  /\ Returns(Salsa!crypto_stream_xor(Pattern(WordBits \div 4), call.args, Nonce24, Key))

CallTag == \E k \in TagKeys, m \in TagMessages : Call("crypto_onetimeauth", <<m, k>>)
ReturnTag ==
  /\ Called("crypto_onetimeauth")
  /\ LET m == call.args[1]
         n == Cardinality(DOMAIN m)
         tag == Auth!crypto_onetimeauth(m, n, call.args[2])
     IN  Returns([tag |-> tag,
                  same |-> Auth!crypto_onetimeauth_verify(tag, m, n, call.args[2]),
                  other |-> Auth!crypto_onetimeauth_verify([tag EXCEPT ![4] = (@ + 1) % 8],
                                                          m, n, call.args[2])])

CallField == \E a, b \in Elements : Call("gf", <<a, b>>)
ReturnField ==
  /\ Called("gf")
  /\ LET a == Curve!Gf(call.args[1])
         b == Curve!Gf(call.args[2])
     IN  Returns([a |-> Curve!pack25519(a),
                  minus |-> Curve!pack25519(Curve!Z(a, b)),
                  times |-> Curve!pack25519(Curve!M(a, b)),
                  over |-> Curve!pack25519(Curve!M(a, Curve!inv25519(b)))])

\* Two parties make their keys, then each computes the shared one.
Limbs(s) == [i \in 0 .. 2 |-> s[i + 1]]
CallKeys == \E x, y \in Seeds : Call("crypto_box_keypair", <<Limbs(x), Limbs(y)>>)
KeyPairs ==
  /\ Called("crypto_box_keypair")
  /\ LET Pair(i) == Curve!crypto_box_keypair(call.args[i])
     IN  call' = [of |-> "crypto_scalarmult", args |-> [i \in 1 .. 2 |-> Pair(i)]]
ReturnKeys ==
  /\ Called("crypto_scalarmult")
  /\ LET Shared(i) == Curve!crypto_scalarmult(call.args[i].sk, call.args[3 - i].pk)
     IN  Returns([i \in 1 .. 2 |-> Shared(i)])

\* A seed becomes a signing key, which signs and is converted to a box key.
CallSign == \E s \in Seeds : Call("crypto_sign_keypair", s)
SignKeyPair ==
  /\ Called("crypto_sign_keypair")
  /\ Returns(Curve!crypto_sign_keypair(call.args))
Sign ==
  /\ Returned("crypto_sign_keypair")
  /\ \E m \in Texts :
       call' = [of |-> "crypto_sign", args |-> <<call.result, m>>,
                result |-> Curve!crypto_sign(m, call.result.sk)]
Convert ==
  /\ Returned("crypto_sign_keypair")
  /\ call' = [of |-> "to_curve25519", args |-> call.result,
              result |-> [pk |-> Curve!crypto_sign_ed25519_pk_to_curve25519(call.result.pk),
                          sk |-> Curve!crypto_sign_ed25519_sk_to_curve25519(call.result.sk)]]
ConvertedPair ==
  /\ Returned("to_curve25519")
  /\ call' = [of |-> "converted", args |-> call.result,
              result |-> Curve!crypto_scalarmult_base(call.result.sk)]

\* A signed message is N digits of a point, N of a scalar, and the text.
\* Any digit of it changes, or the scalar grows by multiples of the order.
Scalar(sm) == sm[4] + 32 * sm[5] + 32^2 * sm[6]
WithScalar(sm, v) == [sm EXCEPT ![4] = v % 32, ![5] = (v \div 32) % 32, ![6] = v \div 32^2]
Altered(sm) ==
  {[sm EXCEPT ![i] = (@ + 1) % 32] : i \in DOMAIN sm}
    \union {WithScalar(sm, v) :
            v \in {Scalar(sm) + k * Order : k \in 1 .. 32^3 \div Order} \intersect 0 .. 32^3 - 1}

CallOpen ==
  /\ Returned("crypto_sign")
  /\ \E received \in {call.result} \union Altered(call.result) :
       call' = [of |-> "crypto_sign_open",
                args |-> [sm |-> received, pk |-> call.args[1].pk,
                          m |-> call.args[2], signed |-> call.result]]
ReturnOpen ==
  /\ Called("crypto_sign_open")
  /\ Returns(Curve!crypto_sign_open(call.args.sm, call.args.pk))

Next ==
  \/ CallDiff \/ ReturnDiff
  \/ CallBlake2b \/ ReturnBlake2b
  \/ CallBlake3 \/ ReturnBlake3
  \/ CallSha512 \/ ReturnSha512
  \/ CallStream \/ ReturnStream
  \/ CallTag \/ ReturnTag
  \/ CallBox \/ ReturnBox
  \/ CallField \/ ReturnField
  \/ CallKeys \/ KeyPairs \/ ReturnKeys
  \/ CallSign \/ SignKeyPair \/ Sign \/ Convert \/ ConvertedPair \/ CallOpen \/ ReturnOpen
  \/ Done

Spec == Init /\ [][Next]_call
----
\* BLAKE2b of the buffered update calls is the BLAKE2b of the padded
\* message, also when the message ends with a block and when the counter
\* carries into its high word.
Blake2bIsRFC7693 ==
  Returned("blake2b256") => call.result = B2!RFC7693(Pattern(WordBits \div 8), call.args)

\* The level-by-level merge hashes the tree of the specification, for
\* every number of chunks, and input beyond eight chunks is refused.
Blake3HashesTheTree ==
  Returned("blake3_256") =>
    call.result = IF call.args > B3!MAX_CHUNKS * B3!CHUNK_LEN THEN -1
                  ELSE B3!SpecHash(Pattern(WordBits \div 4), call.args)

\* SHA-512 with a schedule of sixteen words rewritten in place is SHA-512,
\* also where the padding needs a block more.
Sha512IsFIPS180 ==
  Returned("crypto_hash") => call.result = Sha!SpecHash(Pattern(WordBits \div 8), call.args)

\* The stream of the code never repeats a block: it is that of key, nonce
\* and a counter of all eight bytes.
KeystreamCounts ==
  Returned("crypto_stream_xor") =>
    call.result = Salsa!SpecXSalsa20(Pattern(WordBits \div 4), call.args, Nonce24, Key)

\* The authenticator is the polynomial of the message modulo 2^130 - 5 (in
\* the run 2^17 - 5, of which only the reduction matters), fully reduced, and
\* the comparison accepts this tag and no other.
TagIsPolynomial ==
  Returned("crypto_onetimeauth") =>
    LET m == call.args[1]
        r == call.result
    IN  /\ Auth!Value(r.tag, 5) = Auth!SpecTag(m, Cardinality(DOMAIN m), call.args[2])
        /\ r.same = 0 /\ r.other = -1

\* Packed field elements are the canonical ones whatever carries were
\* delayed, and the field operations are those modulo the prime.
FieldIsExact ==
  Returned("gf") =>
    LET a == call.args[1]
        b == call.args[2]
        r == call.result
        Element(x) == x[0] + 32 * x[1] + 1024 * x[2]
    IN  /\ Element(r.a) = a % Prime
        /\ Element(r.minus) = (a - b) % Prime
        /\ Element(r.times) = (a * b) % Prime
        /\ (Element(r.over) * b) % Prime = IF b % Prime = 0 THEN 0 ELSE a % Prime

\* Both parties compute one shared key, and the box key made from a public
\* signing key is that of the box secret made from the secret one.
KeysAgree ==
  /\ Returned("crypto_scalarmult") => call.result[1] = call.result[2]
  /\ Returned("converted") => call.result = call.args.pk

\* What is signed opens to the text; a message whose point or text was
\* changed does not, and a changed scalar opens only if it is the signed one
\* plus multiples of the order: the code does not ask for the least scalar
\* (tweetnacl.c:798-828), so that a text has more signatures than one.
SignaturesVerify ==
  Returned("crypto_sign_open") =>
    LET Apart(sm) == <<SubSeq(sm, 1, 3), SubSeq(sm, 7, Len(sm)), Scalar(sm) % Order>>
    IN  call.result = IF Apart(call.args.sm) = Apart(call.args.signed)
                      THEN call.args.m ELSE Curve!Invalid
====
