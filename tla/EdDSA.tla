------------------------------- MODULE EdDSA -------------------------------
(***************************************************************************)
(* The Ed25519 signer and verifier of src/libi2pd/Signature.cpp, with the  *)
(* fallback for older keys.  Curve arithmetic is abstracted: a private key  *)
(* is a model value, its expansion is the pair <<key, bit5>> where bit5 is  *)
(* bit 0x20 of the last byte of the expanded scalar, and the public key of  *)
(* an expansion is that pair itself, so public keys are equal exactly when *)
(* the expansions are.  A signature records the expansion that made it,    *)
(* the encoded public key hashed into it, and the message.  Verification    *)
(* succeeds exactly when the verifier's key is the public key of the       *)
(* signing expansion and the one hashed in (S*B = R + H(R,A,M)*A).          *)
(*                                                                         *)
(* Both builds are modelled: OPENSSL (EDDSA25519Signer with its            *)
(* m_Fallback) and the compat signer alone.                                *)
(***************************************************************************)
EXTENDS FiniteSets

CONSTANTS
    Keys,       \* private signing keys
    Msgs,       \* buffers to sign
    Foreign,    \* a public key matching no derivation of any key in Keys
    NoKey       \* nullptr: no public key passed / verifier key not set

VARIABLES
    bit5,       \* bit5[k]: bit 0x20 of the expanded scalar of key k
    signer,     \* the signer the destination holds, or NoKey
    verifier,   \* the public key set on the peer's verifier, or NoKey
    sigs        \* the signatures the signer has produced

vars == <<bit5, signer, verifier, sigs>>

\* Ed25519::ExpandPrivateKey: the scalar with bit 0x20 as the hash made it
Expand(k) == <<k, bit5[k]>>
\* GeneratePublicKey + EncodePublicKey (and EVP_PKEY_get_raw_public_key)
PublicOf(e) == e
\* the public key written into an identity by a current release
ModernPub(k) == PublicOf(Expand(k))
\* the public key an older release derived, the scalar with bit 0x20 cleared
LegacyPub(k) == PublicOf(<<k, FALSE>>)

PubKeys == {PublicOf(<<k, b>>) : k \in Keys, b \in BOOLEAN} \cup {Foreign}

\* a compat constructor that drops bit 0x20 but keeps the public key
\* derived before, so the signature hashes a key it was not made with
SignerCompatNoRegen(k, pub) ==
    LET e == Expand(k)
        older == pub # NoKey /\ PublicOf(e) # pub
    IN [exp |-> IF older THEN <<k, FALSE>> ELSE e, pubEnc |-> PublicOf(e)]

\* EDDSA25519SignerCompat constructor: expand, derive the public key, and on
\* a mismatch with the given one assume an older key: drop bit 0x20 and
\* derive the public key again
SignerCompat(k, pub) ==
    LET e == Expand(k)
        older == pub # NoKey /\ PublicOf(e) # pub
        e2 == IF older THEN <<k, FALSE>> ELSE e
    IN [exp |-> e2, pubEnc |-> PublicOf(e2)]

\* an OPENSSL signer that never falls back
SignerOpenSSLNoFallback(k, pub) == [pkey |-> Expand(k), fallback |-> NoKey]

\* EDDSA25519Signer constructor (OPENSSL): m_Pkey from the raw private key;
\* on a public key mismatch a compat signer becomes m_Fallback and m_Pkey is
\* freed
SignerOpenSSL(k, pub) ==
    LET e == Expand(k)
    IN IF pub # NoKey /\ PublicOf(e) # pub
       THEN [pkey |-> NoKey, fallback |-> SignerCompat(k, pub)]
       ELSE [pkey |-> e, fallback |-> NoKey]

\* EDDSA25519SignerCompat::Sign: sign with the expanded scalar and the
\* stored encoded public key
SignCompat(c, m) == [exp |-> c.exp, A |-> c.pubEnc, msg |-> m]

\* EDDSA25519Signer::Sign: the fallback if any, else EVP_DigestSign, which
\* hashes the public key of m_Pkey; with neither, nothing is written
SignOpenSSL(o, m) ==
    IF o.fallback # NoKey THEN SignCompat(o.fallback, m)
    ELSE IF o.pkey # NoKey THEN [exp |-> o.pkey, A |-> PublicOf(o.pkey), msg |-> m]
    ELSE NoKey

\* Verify (both builds): no key set is a failure; otherwise the Ed25519
\* equation with A the verifier's key
Verify(vk, m, sig) ==
    /\ vk # NoKey
    /\ sig # NoKey
    /\ sig.msg = m
    /\ sig.A = vk
    /\ PublicOf(sig.exp) = vk

Sign(m) ==
    IF signer.build = "openssl" THEN SignOpenSSL(signer.s, m) ELSE SignCompat(signer.s, m)

-----------------------------------------------------------------------------

\* the key bits are fixed by the hash of each key: every combination
Init ==
    /\ bit5 \in [Keys -> BOOLEAN]
    /\ signer = NoKey
    /\ verifier = NoKey
    /\ sigs = {}

\* a destination loads its keys and builds a signer of either build; the
\* identity's public key is the current or the older derivation or a
\* foreign key (a corrupt key file), and the caller passes it or nullptr
CreateSigner(k, pub, passed) ==
    LET arg == IF passed THEN pub ELSE NoKey
    IN /\ signer = NoKey
       /\ \/ signer' = [key |-> k, pub |-> pub, passed |-> passed,
                        build |-> "openssl", s |-> SignerOpenSSL(k, arg)]
          \/ signer' = [key |-> k, pub |-> pub, passed |-> passed,
                        build |-> "compat", s |-> SignerCompat(k, arg)]
    /\ UNCHANGED <<bit5, verifier, sigs>>

SignMsg(m) ==
    /\ signer # NoKey
    /\ sigs' = sigs \cup {Sign(m)}
    /\ UNCHANGED <<bit5, signer, verifier>>

\* the peer reads the identity and sets its verifier's key: SetPublicKey
\* frees any previous key
SetPublicKey(pub) ==
    /\ signer # NoKey
    /\ pub = signer.pub
    /\ verifier' = pub
    /\ UNCHANGED <<bit5, signer, sigs>>

Next ==
    \/ \E k \in Keys, pub \in PubKeys, passed \in BOOLEAN : CreateSigner(k, pub, passed)
    \/ \E m \in Msgs : SignMsg(m)
    \/ \E pub \in PubKeys : SetPublicKey(pub)

Spec == Init /\ [][Next]_vars

-----------------------------------------------------------------------------

TypeOK ==
    /\ bit5 \in [Keys -> BOOLEAN]
    /\ verifier \in PubKeys \cup {NoKey}
    /\ signer = NoKey \/ signer.key \in Keys
    /\ \A sg \in sigs : sg = NoKey \/ sg.msg \in Msgs

\* the identity's public key was made from its private key by a current or
\* an older release, and is passed to the signer
Genuine ==
    /\ signer # NoKey
    /\ signer.passed
    /\ signer.pub \in {ModernPub(signer.key), LegacyPub(signer.key)}

\* Every signature the destination's signer produces, of either build,
\* verifies under the public key of its identity (Signature.cpp:80-150,
\* the fallback to the older derivation), when that key is a genuine one.
SignaturesVerify ==
    (Genuine /\ verifier # NoKey) =>
        \A sg \in sigs : Verify(verifier, sg.msg, sg)

\* The public key the signer hashes into its signatures, of either build.
SignerPub(sg) ==
    IF sg.build = "compat" THEN sg.s.pubEnc
    ELSE IF sg.s.fallback # NoKey THEN sg.s.fallback.pubEnc
    ELSE PublicOf(sg.s.pkey)

\* Signature.cpp:91 reads a mismatch of the passed public key as an older
\* key: after the fallback, the signer's public key is the identity's.
OlderKeyMatches ==
    (signer # NoKey /\ signer.passed) => SignerPub(signer) = signer.pub

\* The two builds agree: for every key and public key passed, the OPENSSL
\* signer's signatures verify under exactly the keys the compat signer's do.
BuildsAgree ==
    \A k \in Keys, pub \in PubKeys \cup {NoKey}, m \in Msgs, vk \in PubKeys :
        Verify(vk, m, SignOpenSSL(SignerOpenSSL(k, pub), m))
            = Verify(vk, m, SignCompat(SignerCompat(k, pub), m))

=============================================================================
