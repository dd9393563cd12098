-------------------------- MODULE MCRescanPipeline --------------------------
EXTENDS RescanPipeline
MCRegistry == <<"npm", "PyPI">>
\* A fresh installation, one download whose second use is yet to be turned on, two
\* downloads of one source, and one download with two uses.
MCSetups == {{}, {<<"gemnasium", "PyPI">>},
             {<<"osv", "npm">>, <<"osv", "PyPI">>},
             {<<"osv", "PyPI">>, <<"gemnasium", "PyPI">>}}
=============================================================================
