---------------------------- MODULE MCWifiClient ----------------------------
EXTENDS WifiClient
=============================================================================
