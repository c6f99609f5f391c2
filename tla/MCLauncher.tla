----------------------------- MODULE MCLauncher -----------------------------
\* TLC instances of Launcher: PCs with different settings.
EXTENDS Launcher

\* The certificate in the store of the PC: hosts and certificate need the administrator.
LocalCertPC == {"hosts", "localCert", "metadata", "profiles"}

\* The certificate in the user's store, and nothing else that may be changed.
UserCertPC == {"userCert"}

BothPCs == {LocalCertPC, UserCertPC}

\* Hosts that the user has mapped by hand, and may be mapped.
HandMappedPC == {{"hosts", "metadata"}}
HandMapped == {"hosts"}
=============================================================================
