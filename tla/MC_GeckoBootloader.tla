-------------------------- MODULE MC_GeckoBootloader --------------------------
EXTENDS GeckoBootloader
==============================================================================
