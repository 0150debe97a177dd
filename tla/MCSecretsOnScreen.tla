------------------------- MODULE MCSecretsOnScreen -------------------------
EXTENDS SecretsOnScreen
CONSTANTS a1, a2, b1

MCAccount == {a1, a2, b1}
MCVault == {{a1, a2}, {b1}}
=============================================================================
