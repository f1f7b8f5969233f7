----------------------------- MODULE MCMigration -----------------------------
EXTENDS Migration

MCNumbers == <<"1001", "1002", "1003", "1004", "1005", "1006", "1007", "1008", "1009", "1010">>
MCNames == <<"a", "x!", "y?">>
=============================================================================
