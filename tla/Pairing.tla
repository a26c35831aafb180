------------------------------- MODULE Pairing -------------------------------
(***************************************************************************)
(* Two people meet through a queue address: each runs kozi-cli pair on a   *)
(* text of it, typed as it was made or printed anew by a program that had  *)
(* parsed it, and from then on their devices look up the hourly slot that  *)
(* the secret of the address names, each by its own clock.                 *)
(***************************************************************************)
EXTENDS Slots, QueueURI

CONSTANTS
    Invitations,  \* the texts people are given
    NoLink

ASSUME PairingAssumption == Invitations \subseteq Texts /\ NoLink \notin Texts

VARIABLES
    link,    \* link[d]: the text that d has paired with
    secret,  \* secret[d]: the shared secret it stored
    origin   \* history: the invitation behind link[d]

pairVars == <<link, secret, origin>>
pairingVars == <<vars, pairVars>>

PairingInit ==
    /\ Init
    /\ link = [d \in Devices |-> NoLink]
    /\ secret = [d \in Devices |-> NoLink]
    /\ origin = [d \in Devices |-> NoLink]

PairWith(d, t, invitation) ==
    /\ link[d] = NoLink
    /\ Accepted(t)
    /\ link' = [link EXCEPT ![d] = t]
    /\ secret' = [secret EXCEPT ![d] = deriveProximitySecret(Parse(t))]
    /\ origin' = [origin EXCEPT ![d] = invitation]
    /\ UNCHANGED vars

Pair(d, t) == PairWith(d, t, t)

\* e is given what String prints of d's address.
PassOn(d, e) ==
    /\ link[d] # NoLink
    /\ PairWith(e, String(Parse(link[d])), origin[d])

PairingNext ==
    \/ Next /\ UNCHANGED pairVars
    \/ \E d \in Devices, t \in Invitations : Pair(d, t)
    \/ \E d, e \in Devices : PassOn(d, e)

PairingSpec == PairingInit /\ [][PairingNext]_pairingVars

-----------------------------------------------------------------------------
(* Properties.                                                             *)

Paired == {d \in Devices : link[d] # NoLink}
Slot(d) == deriveSlotID(secret[d], hourBucket(Time(d)))

\* Away from the hour by more than the skew, the devices that one invitation
\* brought together compute one slot, whoever printed it and whatever zones
\* they are in.
AgreeMidHour ==
    now % Hour >= Skew /\ (now % Hour) + Skew < Hour =>
        \A d, e \in Paired : origin[d] = origin[e] => Slot(d) = Slot(e)

\* Near the hour the slots two devices compute are at most one apart: a peer
\* that also looked one slot back and one ahead would find the other's.
AtMostOneApart ==
    Skew <= Hour \div 2 =>
        \A d, e \in Devices : hourBucket(Time(d)) - hourBucket(Time(e)) \in -1..1

\* Devices that compute the same slot hold addresses of the same queue: the
\* secret hashes its three parts with nothing between them, and the lengths that
\* the parser enforces keep them apart.
StrangersApart ==
    \A d, e \in Paired : Slot(d) = Slot(e) => SameQueue(Parse(origin[d]), Parse(origin[e]))

\* What String prints of an address is accepted and is the same address, unless
\* its port is 0, which prints as the default port, or its host begins with "[".
RoundTrip ==
    \A d \in Paired :
        LET u == Parse(link[d]) IN
        u.Port # 0 /\ ~Bracketed(u.Host) => Accepted(String(u)) /\ Parse(String(u)) = u
=============================================================================
