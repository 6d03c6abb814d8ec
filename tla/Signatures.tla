------------------------------ MODULE Signatures ------------------------------
(***************************************************************************)
(* verify_signature (providers/webhook/verifier.py): what it says of a     *)
(* request.  HMAC is modelled as injective: the signature made with a      *)
(* secret of a timestamp and a body is the record of the three, and it     *)
(* equals no other.                                                        *)
(*                                                                         *)
(* A request has its event as the body, the timestamp of its headers and   *)
(* the signatures in the order they come.  A scheme is the configuration   *)
(* of the manifest's webhook.signature.                                    *)
(***************************************************************************)
EXTENDS Integers, Sequences

CONSTANTS None,       \* a header, a secret or a timestamp that is not there
          NotANumber, \* a timestamp that int() refuses
          NotAscii    \* a signature that begins with a character outside ASCII

Kinds == {"none", "hmac", "stripe_v1", "paypal_certificate"}

\* WebhookSignature: whether the header is named, whether there is a
\* timestamp_header, and the tolerance.
Schemes(Tolerances) == [kind: Kinds, header: BOOLEAN, stamped: BOOLEAN,
                        tolerance: Tolerances]

\* hmac(secret, f"{ts}." + body), or hmac(secret, body) when ts is None.
Sign(secret, ts, body) == [secret |-> secret, ts |-> ts, body |-> body]

\* abs(now - ts) <= tolerance_seconds
InWindow(scheme, ts, now) ==
    ts - now <= scheme.tolerance /\ now - ts <= scheme.tolerance

\* The request carries a signature of its event made with the secret.
SignedWith(request, secret) ==
    \E k \in DOMAIN request.sigs, ts \in {None, request.ts} :
        request.sigs[k] = Sign(secret, ts, request.event)

\* The dict made of the request's headers: of several signatures the last one stays.
Received(request) == request.sigs[Len(request.sigs)]

\* dict(_STRIPE_SIG.findall(...)) of one Stripe header: the last of the signatures the
\* pattern finds, which are those in ASCII.
StripeReceived(request, k) ==
    /\ request.sigs[k] # NotAscii
    /\ \A j \in DOMAIN request.sigs : j > k => request.sigs[j] = NotAscii

\* The timestamp_header, if the scheme has one, is there and in time.
StampGood(scheme, request, now) ==
    scheme.stamped => /\ request.ts \notin {None, NotANumber}
                      /\ InWindow(scheme, request.ts, now)

HmacAccepts(scheme, request, secret, now) ==
    /\ scheme.header
    /\ request.sigs # <<>>
    /\ StampGood(scheme, request, now)
    /\ Received(request) = Sign(secret, IF scheme.stamped THEN request.ts ELSE None,
                                request.event)

StripeAccepts(scheme, request, secret, now) ==
    /\ request.ts \notin {None, NotANumber}
    /\ InWindow(scheme, request.ts, now)
    /\ \E k \in DOMAIN request.sigs :
          /\ StripeReceived(request, k)
          /\ request.sigs[k] = Sign(secret, request.ts, request.event)

Accepts(scheme, request, secret, now) ==
    \/ scheme.kind = "none"
    \/ /\ secret # None
       /\ \/ scheme.kind = "hmac" /\ HmacAccepts(scheme, request, secret, now)
          \/ scheme.kind = "stripe_v1" /\ StripeAccepts(scheme, request, secret, now)

\* int(ts_raw) of the Stripe header has no handler, the one of a timestamp_header has;
\* compare_digest refuses a text that is not in ASCII, which only a plain HMAC can meet.
Raises(scheme, request, secret, now) ==
    /\ secret # None
    /\ \/ /\ scheme.kind = "stripe_v1"
          /\ \E k \in DOMAIN request.sigs : StripeReceived(request, k)
          /\ request.ts = NotANumber
       \/ /\ scheme.kind = "hmac" /\ scheme.header
          /\ request.sigs # <<>>
          /\ StampGood(scheme, request, now)
          /\ Received(request) = NotAscii
=============================================================================
