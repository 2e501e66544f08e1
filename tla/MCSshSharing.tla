---------------------------- MODULE MCSshSharing ----------------------------
EXTENDS SshSharing
=============================================================================
