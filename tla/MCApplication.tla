---------------------------- MODULE MCApplication ----------------------------
\* Two processes on one file, two migrations of two statements and of one.
EXTENDS Application

MigrationSizes == <<2, 1>>

=============================================================================
