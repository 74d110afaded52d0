-------------------------- MODULE MCAccountBindings --------------------------
EXTENDS AccountBindings, TLC

Ask(from, account, cred, hosts, remove) ==
  [from |-> from, account |-> account, cred |-> cred, hosts |-> hosts, remove |-> remove]
Both == [smtp |-> "host", imap |-> "host"]
NoneAtAll == [smtp |-> NoHost, imap |-> NoHost]

\* x and y are addresses of one provider, z of none; x has an owner, y two.
MCProvider == [a \in {"x", "y", "z"} |-> IF a = "z" THEN "none" ELSE "icloud"]
MCOwners == [a \in {"x", "y", "z"} |->
               CASE a = "x" -> {"acc1"} [] a = "y" -> {"acc1", "acc2"} [] OTHER -> {}]
MCRequests ==
  {Ask("x", NoAccount, NoAddress, NoFlags, FALSE),
   Ask("y", NoAccount, NoAddress, NoFlags, FALSE),
   Ask("y", "acc1", NoAddress, NoFlags, FALSE),
   Ask("y", "acc1", "y", NoFlags, FALSE),
   Ask("z", "acc1", "z", Both, FALSE),
   Ask("x", "acc1", NoAddress, NoneAtAll, FALSE),
   Ask("y", "acc2", "x", NoFlags, FALSE),
   Ask("x", "acc1", NoAddress, NoFlags, TRUE)}

Symmetric == Permutations(Procs)
=============================================================================
