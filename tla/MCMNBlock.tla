----------------------------- MODULE MCMNBlock ------------------------------
(***************************************************************************)
(* Instances of MNBlock for TLC: small sets of transactions, each chosen   *)
(* for one kind of conflict.                                               *)
(***************************************************************************)
EXTENDS MNBlock

\* A deterministic stand-in for the score hash.
MCRawScore(p, b, since) == (7 * p + 5 * b + 3 * since) % 11

Reg(id, o, a, k, spends) ==
  [ type |-> "ProReg", id |-> id, spends |-> spends, collateralOutpoint |-> o,
    addr |-> a, keyIDOwner |-> k, keyIDVoting |-> k, vchOperatorPubKey |-> k ]
UpServ(id, p, a, k) ==
  [ type |-> "ProUpServ", id |-> id, spends |-> {}, proTxHash |-> p,
    addr |-> a, signer |-> k ]
UpReg(id, p, op, vote, k) ==
  [ type |-> "ProUpReg", id |-> id, spends |-> {}, proTxHash |-> p,
    vchOperatorPubKey |-> op, keyIDVoting |-> vote, signer |-> k ]
UpRev(id, p, reason, k) ==
  [ type |-> "ProUpRev", id |-> id, spends |-> {}, proTxHash |-> p,
    nReason |-> reason, signer |-> k ]
Commitment(id, h) ==
  [ type |-> "QuorumCommitment", id |-> id, spends |-> {}, quorumHeight |-> h,
    verifies |-> TRUE ]
Unknown(id) == [ type |-> "Unknown", id |-> id, spends |-> {} ]
Spend(id, o) == [ type |-> "Other", id |-> id, spends |-> {o} ]

MCOutpoints == {"o1", "o2"}
MCAddrs     == {"a1", "a2", "a3"}
MCKeys      == {"k1", "k2", "k3", "k4"}
MCCoinAmount == [o \in MCOutpoints |-> IF o = "o1" THEN 1 ELSE 2]
MCCoinHeight == [o \in MCOutpoints |-> 0]

\* Two masternodes and a third registration that wants the first one's
\* collateral; addresses and a voting key another one has or wants; the
\* collaterals spent, one of them by the registering transaction itself; a
\* commitment to the quorum of height 2 and a transaction of an unknown type.
ConflictTxs ==
  { Reg(1, "o1", "a1", "k1", {}), Reg(2, "o2", "a2", "k2", {"o2"}),
    Reg(3, "o1", "a3", "k3", {}), Reg(4, "o2", "a2", "k4", {}),
    UpServ(5, 1, "a2", "k1"), UpReg(6, 1, NoKey, "k2", "k1"), Spend(7, "o1"),
    UpServ(8, 1, "a3", "k1"), UpServ(9, 4, "a3", "k4"),
    Commitment(10, 2), Unknown(11) }

\* One masternode that is revoked, changes its keys, is banned and revived.
PoSeTxs ==
  { Reg(1, "o1", "a1", "k1", {}), Reg(2, "o2", "a2", "k2", {}),
    UpReg(3, 1, "k3", NoKey, "k1"), UpReg(4, 1, NoKey, "k4", "k1"),
    UpRev(5, 1, 1, "k1"), UpRev(6, 1, 0, "k1"), UpRev(7, 1, 0, "k3") }

=============================================================================
