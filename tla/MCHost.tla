------------------------------- MODULE MCHost -------------------------------
EXTENDS SolanaWallet, TLC

CONSTANT MaxCalls
CallIds == 1..MaxCalls

SolanaMethods == {Wire(f) : f \in Features}
HostMethods   == SolanaMethods \cup {"eth_accounts"}

ASSUME SolanaMethods \cap Standard = {}
=============================================================================
