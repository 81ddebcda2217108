--------------------------- MODULE MCResourceTags ---------------------------
EXTENDS ResourceTags
CONSTANTS a, b, e

\* The environment has no tags, one, two of which one may be configured as well,
\* or one twice.
MCEnvironments == {<<>>, <<e>>, <<b, e>>, <<e, e>>}
MCTags == {a, b, e}
=============================================================================
