---------------------------- MODULE MCUsbSender ----------------------------
EXTENDS UsbSender

MCSizes == {1, 2}
=============================================================================
