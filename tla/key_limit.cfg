SPECIFICATION FetchSpec
CONSTANT MaxKeys = 2
PROPERTY ConsentIsAsked
