---------------------------- MODULE MCAttachment ----------------------------
EXTENDS Attachment

Policy(t, m, u) == [transport |-> t, mac |-> m, tuning |-> u]

\* One policy, and others that differ from it in each field.
FourPolicies ==
    {Policy("v6", "k", "slow"), Policy("v6", "k", "fast"), Policy("v6", "l", "slow"),
     Policy("v4", "k", "slow")}
=============================================================================
