--------------------------- MODULE MCBackupPublish ---------------------------
(* BackupPublish for TLC: Backup.cfg gives every constant.                  *)
EXTENDS BackupPublish
=============================================================================
